---- MODULE Spec2Model ----
(***************************************************************************)
(* Model of the transform tool of services_and_tasks: the structural codec *)
(* (flattenObject / unflattenObject), the worksheet reader and writer that *)
(* use it, the knowledge store (available_options.json) and the learning   *)
(* pipeline that fills it.                                                 *)
(*                                                                         *)
(* A JavaScript string is a sequence of one-character strings, so that     *)
(* split, join and trim are computed character by character.  A property   *)
(* name is a TLA+ string.  A JavaScript value is a record with the fields  *)
(*   t : "null" | "str" | "num" | "arr" | "obj"                            *)
(*   s : the text of a string, or the decimal text of a number             *)
(*   a : the elements of an array                                          *)
(*   o : the properties of an object, a sequence of [k, v] in insertion    *)
(*       order (for .. in and Object.keys enumerate in that order)         *)
(* Booleans, Dates and undefined-valued properties are not modelled.       *)
(***************************************************************************)
EXTENDS Integers, Sequences, FiniteSets, TLC

VARIABLES
    trace,      \* codec runs: <<[op, doc]>>, doc the batch after each step
    sheet,      \* codec runs: the worksheet last written or given, or NoSheet
    store,      \* the file available_options.json
    callLog,    \* the updateAvailableOptions calls since the reset
    mode,       \* pipeline runs: "json" (transform_from_json) or "table"
    filePaths,  \* pipeline runs: the files named on the command line
    idx,        \* pipeline runs: how many of them the loop has taken
    pc,         \* pipeline runs: the step the run is at
    dataArray,  \* pipeline runs: the batch of the current file
    fieldIdx,   \* pipeline runs: position in the current learnFields
    validationErrors,   \* pipeline runs: result of the last validateData
    successCount,
    errorCount,
    taskProductsData,
    tasksData,
    servicesData,
    outputs,    \* pipeline runs: the files written to the outputs directory
    accepted,   \* pipeline runs: the files (by position) that passed validation
    call,       \* function calls: the function called and its arguments
    result      \* function calls: what the call has returned so far

codecVars == <<trace, sheet>>

storeVars == <<store, callLog>>

countVars == <<successCount, errorCount>>

dataVars == <<taskProductsData, tasksData, servicesData>>

pipeVars ==
    <<mode, filePaths, accepted, idx, pc, dataArray, fieldIdx, validationErrors, countVars,
      dataVars, outputs>>

callVars == <<call, result>>

vars == <<codecVars, storeVars, pipeVars, callVars>>

\* no function is called on its own
NoCall ==
    /\ call = [fn |-> "none"]
    /\ result = [stage |-> "none"]

\* no pipeline run is under way
NoPipeline ==
    /\ mode = "json"
    /\ filePaths = <<>>
    /\ idx = 0
    /\ pc = "off"
    /\ dataArray = <<>>
    /\ fieldIdx = 0
    /\ validationErrors = <<>>
    /\ successCount = 0
    /\ errorCount = 0
    /\ taskProductsData = <<>>
    /\ tasksData = <<>>
    /\ servicesData = <<>>
    /\ outputs = <<>>
    /\ accepted = {}

-----------------------------------------------------------------------------
(* JavaScript values *)

Null == [t |-> "null", s |-> <<>>, a |-> <<>>, o |-> <<>>]

Str(s) == [t |-> "str", s |-> s, a |-> <<>>, o |-> <<>>]

Num(s) == [t |-> "num", s |-> s, a |-> <<>>, o |-> <<>>]

Arr(a) == [t |-> "arr", s |-> <<>>, a |-> a, o |-> <<>>]

Obj(o) == [t |-> "obj", s |-> <<>>, a |-> <<>>, o |-> o]

Prop(k, v) == [k |-> k, v |-> v]

EmptyStr == Str(<<>>)

\* typeof item === 'string' || typeof item === 'number'
IsPrimitive(v) == v.t \in {"str", "num"}

-----------------------------------------------------------------------------
(* Objects as property lists *)

KeysOf(o) == {o[i].k : i \in DOMAIN o}

HasKey(o, k) == \E i \in DOMAIN o : o[i].k = k

Get(o, k) == o[CHOOSE i \in DOMAIN o : o[i].k = k].v

\* o[k] = v: an existing property keeps its place, a new one is appended
Put(o, k, v) ==
    IF HasKey(o, k)
    THEN [i \in DOMAIN o |-> IF o[i].k = k THEN Prop(k, v) ELSE o[i]]
    ELSE Append(o, Prop(k, v))

RECURSIVE Assign(_, _)
\* Object.assign(target, source)
Assign(target, source) ==
    IF source = <<>> THEN target
    ELSE Assign(Put(target, source[1].k, source[1].v), Tail(source))

-----------------------------------------------------------------------------
(* Strings *)

Min(S) == CHOOSE x \in S : \A y \in S : x <= y

IsSpace(c) == c = " "

RECURSIVE TrimStart(_)
TrimStart(s) ==
    IF s # <<>> /\ IsSpace(Head(s)) THEN TrimStart(Tail(s)) ELSE s

RECURSIVE TrimEnd(_)
TrimEnd(s) ==
    IF s # <<>> /\ IsSpace(s[Len(s)]) THEN TrimEnd(SubSeq(s, 1, Len(s) - 1)) ELSE s

\* String.prototype.trim
trim(s) == TrimEnd(TrimStart(s))

\* the positions at which sep occurs in s
Occurrences(s, sep) ==
    {i \in 1..(Len(s) - Len(sep) + 1) : SubSeq(s, i, i + Len(sep) - 1) = sep}

RECURSIVE split(_, _)
\* String.prototype.split(sep), sep not empty
split(s, sep) ==
    IF Occurrences(s, sep) = {} THEN <<s>>
    ELSE LET i == Min(Occurrences(s, sep))
         IN  <<SubSeq(s, 1, i - 1)>> \o split(SubSeq(s, i + Len(sep), Len(s)), sep)

RECURSIVE join(_, _)
\* Array.prototype.join(sep) of an array of strings
join(a, sep) ==
    IF a = <<>> THEN <<>>
    ELSE IF Len(a) = 1 THEN a[1]
    ELSE a[1] \o sep \o join(Tail(a), sep)

\* String(v) of a primitive (null inside join gives the empty text)
ToText(v) == IF IsPrimitive(v) THEN v.s ELSE <<>>

-----------------------------------------------------------------------------
(* JSON.stringify, as far as flattenObject uses it.  The text is compact; a  *)
(* property name stands in the text as one token; the input alphabet has no  *)
(* character that needs an escape.                                           *)

RECURSIVE JSONstringify(_)
RECURSIVE StringifyItems(_)
RECURSIVE StringifyProps(_)

StringifyItems(a) ==
    IF a = <<>> THEN <<>>
    ELSE IF Len(a) = 1 THEN JSONstringify(a[1])
    ELSE JSONstringify(a[1]) \o <<",">> \o StringifyItems(Tail(a))

StringifyProps(o) ==
    IF o = <<>> THEN <<>>
    ELSE LET p == <<"\"", o[1].k, "\"", ":">> \o JSONstringify(o[1].v)
         IN  IF Len(o) = 1 THEN p ELSE p \o <<",">> \o StringifyProps(Tail(o))

JSONstringify(v) ==
    IF v.t = "null" THEN <<"n", "u", "l", "l">>
    ELSE IF v.t = "str" THEN <<"\"">> \o v.s \o <<"\"">>
    ELSE IF v.t = "num" THEN v.s
    ELSE IF v.t = "arr" THEN <<"[">> \o StringifyItems(v.a) \o <<"]">>
    ELSE <<"{">> \o StringifyProps(v.o) \o <<"}">>

-----------------------------------------------------------------------------
(* The structural codec *)

\* the separator of join(', ') and split(', ')
CommaSpace == <<",", " ">>

\* Known array fields that should be arrays
arrayFields == {"inputs", "outputs", "responsibility_options", "enhancement-order"}

\* the prefix is dropped
NewKey_NoPrefix(prefix, key) == key

\* `${prefix}.${key}` when a prefix is given, else key
NewKey(prefix, key) == IF prefix # "" THEN prefix \o "." \o key ELSE key

\* joined with "," alone
JoinArray_CommaOnly(a) == join([i \in DOMAIN a |-> ToText(a[i])], <<",">>)

\* value.join(', ') of an array of primitives
JoinArray(a) == join([i \in DOMAIN a |-> ToText(a[i])], CommaSpace)

\* every array that is not empty is serialised
FlattenArray_AlwaysJson(value) ==
    IF Len(value.a) = 0 THEN EmptyStr ELSE Str(JSONstringify(value))

\* what flattenObject stores for an array value
FlattenArray(value) ==
    IF Len(value.a) = 0 THEN EmptyStr
    ELSE IF \A i \in DOMAIN value.a : IsPrimitive(value.a[i])
         THEN Str(JoinArray(value.a))
         ELSE Str(JSONstringify(value))

RECURSIVE FlattenProps(_, _, _)
\* the for .. in loop of flattenObject: flattened so far, properties left, prefix
FlattenProps(flattened, props, prefix) ==
    IF props = <<>> THEN flattened
    ELSE LET key    == props[1].k
             value  == props[1].v
             newKey == NewKey(prefix, key)
             next   ==
                 IF value.t = "null" THEN Put(flattened, newKey, EmptyStr)
                 ELSE IF value.t = "arr" THEN Put(flattened, newKey, FlattenArray(value))
                 ELSE IF value.t = "obj"
                      THEN Assign(flattened, FlattenProps(<<>>, value.o, newKey))
                      ELSE Put(flattened, newKey, value)
         IN  FlattenProps(next, Tail(props), prefix)

flattenObject(obj, prefix) == FlattenProps(<<>>, obj, prefix)

\* split(',') in place of split(', ')
DecodeArray_SplitComma(s) ==
    LET parts   == split(s, <<",">>)
        trimmed == [i \in DOMAIN parts |-> trim(parts[i])]
        kept    == SelectSeq(trimmed, LAMBDA item : item # <<>>)
    IN  [i \in DOMAIN kept |-> Str(kept[i])]

\* value.split(', ').map(item => item.trim()).filter(item => item !== '')
DecodeArray(s) ==
    LET parts   == split(s, CommaSpace)
        trimmed == [i \in DOMAIN parts |-> trim(parts[i])]
        kept    == SelectSeq(trimmed, LAMBDA item : item # <<>>)
    IN  [i \in DOMAIN kept |-> Str(kept[i])]

\* the empty string is not decoded
UnflattenValue_EmptyKept(key, value) ==
    IF key \in arrayFields /\ value.t = "str" /\ value # EmptyStr
    THEN Arr(DecodeArray(value.s))
    ELSE value

\* every string that holds the separator is decoded, whatever its key
UnflattenValue_AnyKey(key, value) ==
    IF key \in arrayFields \/ (value.t = "str" /\ Occurrences(value.s, CommaSpace) # {})
    THEN IF value = EmptyStr \/ value.t = "null" THEN Arr(<<>>)
         ELSE IF value.t = "str" THEN Arr(DecodeArray(value.s))
         ELSE value
    ELSE value

\* what unflattenObject stores under key for the flat value
UnflattenValue(key, value) ==
    IF key \in arrayFields
    THEN IF value = EmptyStr \/ value.t = "null" THEN Arr(<<>>)
         ELSE IF value.t = "str" THEN Arr(DecodeArray(value.s))
         ELSE value
    ELSE value

unflattenObject(obj) ==
    [i \in DOMAIN obj |-> Prop(obj[i].k, UnflattenValue(obj[i].k, obj[i].v))]

-----------------------------------------------------------------------------
(* Worksheets.  A worksheet is its header row and its data rows; a data row  *)
(* holds a cell for each column it has a value in.  NoSheet: none written.   *)

NoSheet == [present |-> FALSE, headers |-> <<>>, rows |-> <<>>]

Sheet(headers, rows) == [present |-> TRUE, headers |-> headers, rows |-> rows]

\* Object.keys(flattenedData[0] || {})
HeadersOf(flattenedData) ==
    IF flattenedData = <<>> THEN <<>>
    ELSE [i \in DOMAIN flattenedData[1] |-> flattenedData[1][i].k]

\* a column whose value is the empty string gets no cell
AddRow_SkipEmpty(headers, row) ==
    LET held == SelectSeq(headers, LAMBDA h : HasKey(row, h) /\ Get(row, h) # EmptyStr)
    IN  [i \in DOMAIN held |-> Prop(held[i], Get(row, held[i]))]

\* worksheet.addRow(row): the cells of the columns the row object has a key for
AddRow(headers, row) ==
    LET held == SelectSeq(headers, LAMBDA h : HasKey(row, h))
    IN  [i \in DOMAIN held |-> Prop(held[i], Get(row, held[i]))]

writeExcelData(data) ==
    LET flattenedData == [i \in DOMAIN data |-> flattenObject(data[i], "")]
        headers       == HeadersOf(flattenedData)
    IN  Sheet(headers, [i \in DOMAIN flattenedData |-> AddRow(headers, flattenedData[i])])

RECURSIVE RichText(_)
\* cellValue.richText.map(rt => rt.text || '').join('')
RichText(runs) ==
    IF runs = <<>> THEN <<>>
    ELSE (IF runs[1].t = "obj" /\ HasKey(runs[1].o, "text") /\ Get(runs[1].o, "text").t = "str"
          THEN Get(runs[1].o, "text").s ELSE <<>>) \o RichText(Tail(runs))

\* the text of a cell; an empty cell reads as null
extractCellText(cellValue) ==
    IF cellValue.t = "null" THEN <<>>
    ELSE IF /\ cellValue.t = "obj"
            /\ HasKey(cellValue.o, "richText")
            /\ Get(cellValue.o, "richText").t = "arr"
         THEN RichText(Get(cellValue.o, "richText").a)
         ELSE ToText(cellValue)

\* row.getCell(colIdx).value
CellValue(row, header) == IF HasKey(row, header) THEN Get(row, header) ELSE Null

\* the rowData object readExcelData builds for one row
RowData(headers, row) ==
    LET named == SelectSeq(headers, LAMBDA h : h # "")
    IN  [i \in DOMAIN named |->
            Prop(named[i], Str(extractCellText(CellValue(row, named[i]))))]

\* eachRow({ includeEmpty: false }): the rows that hold a value
readExcelData(worksheet) ==
    LET valued == SelectSeq(worksheet.rows, LAMBDA row : row # <<>>)
    IN  [i \in DOMAIN valued |-> unflattenObject(RowData(worksheet.headers, valued[i]))]

-----------------------------------------------------------------------------
(* The comparison the round-trip tests make *)

\* value.map(v => typeof v === 'string' ? v.trim() : v).filter(v => v !== '')
NormalizeArray(a) ==
    SelectSeq([i \in DOMAIN a |-> IF a[i].t = "str" THEN Str(trim(a[i].s)) ELSE a[i]],
              LAMBDA v : v # EmptyStr)

RECURSIVE normalizeJson(_)
RECURSIVE NormalizeProps(_)

NormalizeProps(o) ==
    [i \in DOMAIN o |->
        Prop(o[i].k,
             IF o[i].v.t = "arr" THEN Arr(NormalizeArray(o[i].v.a))
             ELSE IF o[i].v.t = "str" THEN Str(trim(o[i].v.s))
             ELSE normalizeJson(o[i].v))]

normalizeJson(data) ==
    IF data.t = "arr" THEN Arr([i \in DOMAIN data.a |-> normalizeJson(data.a[i])])
    ELSE IF data.t = "obj" THEN Obj(NormalizeProps(data.o))
    ELSE data

\* normalizeJson of a batch
NormalizeBatch(batch) == [i \in DOMAIN batch |-> NormalizeProps(batch[i])]

RECURSIVE DeepEqual(_, _)
RECURSIVE PropsEqual(_, _)

\* toEqual on two objects: the same keys with equal values, in any order
PropsEqual(x, y) ==
    /\ KeysOf(x) = KeysOf(y)
    /\ \A k \in KeysOf(x) : DeepEqual(Get(x, k), Get(y, k))

\* toEqual on two values
DeepEqual(x, y) ==
    /\ x.t = y.t
    /\ x.s = y.s
    /\ Len(x.a) = Len(y.a)
    /\ \A i \in DOMAIN x.a : DeepEqual(x.a[i], y.a[i])
    /\ PropsEqual(x.o, y.o)

\* toEqual on two batches
BatchEqual(x, y) ==
    /\ Len(x) = Len(y)
    /\ \A i \in DOMAIN x : PropsEqual(x[i], y[i])

-----------------------------------------------------------------------------
(* The knowledge store: the file available_options.json.  The file is there  *)
(* or not, and what is there parses or not; doc is the object it holds.      *)
(* JSON.stringify followed by JSON.parse gives back an object of strings,    *)
(* arrays and objects unchanged, so the file holds the object itself.  The   *)
(* keys of a relationship map are values of the data, hence strings of       *)
(* characters.                                                               *)

NoFile == [exists |-> FALSE, valid |-> FALSE, doc |-> <<>>]

FileOf(doc) == [exists |-> TRUE, valid |-> TRUE, doc |-> doc]

\* the characters of the model in the order of their UTF-16 code units
CodeOrder ==
    <<" ", "\"", ",", "-", ".", "1", ":",
      "A", "B", "C", "D", "E", "F", "G", "H", "I", "J", "K", "L", "M",
      "N", "O", "P", "Q", "R", "S", "T", "U", "V", "W", "X", "Y", "Z",
      "[", "]", "_",
      "a", "b", "c", "d", "e", "f", "g", "h", "i", "j", "k", "l", "m",
      "n", "o", "p", "q", "r", "s", "t", "u", "v", "w", "x", "y", "z",
      "{", "}">>

CodeUnit(c) == CHOOSE i \in DOMAIN CodeOrder : CodeOrder[i] = c

RECURSIVE StrLess(_, _)
\* x < y on strings: by code units, a proper prefix first
StrLess(x, y) ==
    IF y = <<>> THEN FALSE
    ELSE IF x = <<>> THEN TRUE
    ELSE IF x[1] = y[1] THEN StrLess(Tail(x), Tail(y))
    ELSE CodeUnit(x[1]) < CodeUnit(y[1])

RECURSIVE InsertSorted(_, _)
InsertSorted(x, a) ==
    IF a = <<>> THEN <<x>>
    ELSE IF StrLess(x.s, a[1].s) THEN <<x>> \o a
    ELSE <<a[1]>> \o InsertSorted(x, Tail(a))

RECURSIVE sort(_)
\* Array.prototype.sort() of an array of strings
sort(a) ==
    IF a = <<>> THEN <<>>
    ELSE InsertSorted(a[Len(a)], sort(SubSeq(a, 1, Len(a) - 1)))

Range(a) == {a[i] : i \in DOMAIN a}

\* the set is not made: the values are kept as they come
Unique_Keep(a) == a

RECURSIVE Unique(_)
\* [...new Set(a)]: the first occurrence of each value, in order
Unique(a) ==
    IF a = <<>> THEN <<>>
    ELSE LET front == Unique(SubSeq(a, 1, Len(a) - 1))
         IN  IF a[Len(a)] \in Range(front) THEN front ELSE Append(front, a[Len(a)])

\* the object read from the file; {} if it is missing or does not parse
ReadOptions(file) == IF file.exists /\ file.valid THEN file.doc ELSE <<>>

initializeAvailableOptions == FileOf(<<>>)

\* currentOptions[fieldName] || []
ExistingValues(currentOptions, fieldName) ==
    IF HasKey(currentOptions, fieldName) THEN Get(currentOptions, fieldName).a ELSE <<>>

\* the list of the field is replaced by the values given
updateAvailableOptions_Replace(file, fieldName, values) ==
    FileOf(Put(ReadOptions(file), fieldName, Arr(sort(Unique(values)))))

\* the values are appended to the list, which is not sorted again
updateAvailableOptions_NoSort(file, fieldName, values) ==
    LET currentOptions == ReadOptions(file)
    IN  FileOf(Put(currentOptions, fieldName,
                   Arr(Unique(ExistingValues(currentOptions, fieldName) \o values))))

\* the file after updateAvailableOptions(fieldName, values)
updateAvailableOptions(file, fieldName, values) ==
    LET currentOptions == ReadOptions(file)
        combinedValues == Unique(ExistingValues(currentOptions, fieldName) \o values)
    IN  FileOf(Put(currentOptions, fieldName, Arr(sort(combinedValues))))

\* the file after updateAvailableOptionsRelationships
\* the entries of the maps are added to the maps the file has
updateAvailableOptionsRelationships_Merge(file, responsibilities, producers, enhancements) ==
    LET currentOptions == ReadOptions(file)
        Merged(key, map) ==
            IF HasKey(currentOptions, key) THEN Obj(Assign(Get(currentOptions, key).o, map))
            ELSE Obj(map)
        withTr  == Put(currentOptions, "task_responsibilities",
                       Merged("task_responsibilities", responsibilities))
        withTpp == Put(withTr, "taskProduct_producers",
                       Merged("taskProduct_producers", producers))
    IN  FileOf(Put(withTpp, "taskProduct_enhancements",
                   Merged("taskProduct_enhancements", enhancements)))

updateAvailableOptionsRelationships(file, responsibilities, producers, enhancements) ==
    LET currentOptions == ReadOptions(file)
        withTr  == Put(currentOptions, "task_responsibilities", Obj(responsibilities))
        withTpp == Put(withTr, "taskProduct_producers", Obj(producers))
    IN  FileOf(Put(withTpp, "taskProduct_enhancements", Obj(enhancements)))

-----------------------------------------------------------------------------
(* Inputs of the codec runs *)

\* the longest scalar string and cell text drawn
MaxStrLen == 3

\* the longest array drawn
MaxArrLen == 2

\* the most records of a batch, and rows of a given worksheet
MaxBatch == 2

\* the most codec steps of a run
MaxOps == 3

Chars == {"a", "b", ",", " "}

SeqsUpTo(S, n) == UNION {[1..k -> S] : k \in 0..n}

Strings == SeqsUpTo(Chars, MaxStrLen)

sA == Str(<<"a">>)

sB == Str(<<"b">>)

n1 == Num(<<"1">>)

\* array elements: plain, empty, padded, holding a comma, and a number
Elems ==
    {sA, sB, EmptyStr, Str(<<" ", "a">>), Str(<<"a", " ">>), Str(<<"a", ",", "b">>),
     Str(<<"a", ",">>), Str(<<",", " ">>), n1}

\* arrays of primitives, and arrays with an element that is no primitive
Arrays ==
    {Arr(a) : a \in SeqsUpTo(Elems, MaxArrLen)}
        \cup {Arr(<<Null>>), Arr(<<sA, Null>>), Arr(<<Obj(<<Prop("x", sA)>>)>>)}

\* nested records
Nested ==
    {Obj(<<>>), Obj(<<Prop("x", sA)>>), Obj(<<Prop("inputs", Arr(<<sA, sB>>))>>),
     Obj(<<Prop("x", Null), Prop("y", Obj(<<Prop("z", Arr(<<sA, sB>>))>>))>>)}

FieldValues == {Null, n1} \cup {Str(s) : s \in Strings} \cup Arrays \cup Nested

\* a few values for the records with more than one field
FewValues == {Null, n1, sA, EmptyStr, Str(<<" ", "b">>), Arr(<<>>), Arr(<<sA, sB>>), Obj(<<Prop("x", sB)>>)}

\* records: one field with any value; two or three fields with a few values;
\* a nested record next to the dotted key it flattens to
Records ==
    {<<Prop(f, v)>> : f \in {"inputs", "task"}, v \in FieldValues}
        \cup {<<Prop(f, v)>> : f \in arrayFields \cup {"meta"}, v \in FewValues}
        \cup {<<Prop("inputs", v), Prop("task", w)>> : v, w \in FewValues}
        \cup {<<Prop("task", w), Prop("outputs", v)>> : v, w \in FewValues}
        \cup {<<Prop("meta", Obj(<<Prop("x", v)>>)), Prop("meta.x", sA)>> : v \in FewValues}
        \cup {<<Prop("meta.x", sA), Prop("meta", Obj(<<Prop("x", v)>>))>> : v \in FewValues}
        \cup {<<Prop("meta.x", v), Prop("meta", Obj(<<Prop("x", sA)>>))>> : v \in FewValues}
        \cup {<<>>, <<Prop("inputs", Arr(<<sA, sB>>)), Prop("outputs", Arr(<<>>))>>,
              <<Prop("inputs", EmptyStr), Prop("outputs", EmptyStr),
                Prop("responsibility_options", EmptyStr), Prop("enhancement-order", EmptyStr)>>}

\* the records of the batches with several records
BatchRecords ==
    {<<>>,
     <<Prop("task", sA)>>,
     <<Prop("task", Str(<<" ", "b">>)), Prop("inputs", Arr(<<sA, sB>>))>>,
     <<Prop("task", sB), Prop("inputs", Arr(<<>>))>>,
     <<Prop("inputs", Arr(<<Str(<<"a", " ">>), EmptyStr>>)), Prop("task", sA)>>,
     <<Prop("task", Null), Prop("inputs", Arr(<<sA>>))>>,
     <<Prop("task", sA), Prop("inputs", Arr(<<sB>>)), Prop("meta", Obj(<<Prop("x", sA)>>))>>}

InputBatches ==
    {<<r>> : r \in Records} \cup {b \in SeqsUpTo(BatchRecords, MaxBatch) : Len(b) > 1}

\* cell values of a worksheet that was not written by writeExcelData
CellTexts == Strings \cup {<<"a", ",", " ", "b">>}

RichCell == Obj(<<Prop("richText", Arr(<<Obj(<<Prop("text", Str(<<"a", ",">>))>>),
                                         Obj(<<Prop("text", Str(<<" ", "b">>))>>)>>))>>)

FewCells == {sA, Str(<<" ", "a", " ">>), Str(<<"a", ",", " ", "b">>), Str(<<",", " ">>), EmptyStr}

\* rows over the columns task, inputs: either cell may be empty
SheetRows ==
    {<<>>} \cup {<<Prop("task", c)>> : c \in FewCells}
        \cup {<<Prop("inputs", c)>> : c \in FewCells}
        \cup {<<Prop("task", c), Prop("inputs", d)>> : c, d \in FewCells}

InputSheets ==
    {Sheet(<<h>>, <<<<Prop(h, c)>>>>) :
        h \in {"inputs", "task"}, c \in {Str(t) : t \in CellTexts} \cup {n1, RichCell}}
        \cup {Sheet(<<"task", "inputs">>, rows) : rows \in SeqsUpTo(SheetRows, MaxBatch)}

-----------------------------------------------------------------------------
(* Codec runs: a batch is encoded and decoded in turn, directly or through a *)
(* worksheet.                                                                *)

Step(op, doc) == [op |-> op, doc |-> doc]

LastOp == trace[Len(trace)].op

Doc == trace[Len(trace)].doc

InitCodec ==
    /\ \/ /\ \E b \in InputBatches : trace = <<Step("json", b)>>
          /\ sheet = NoSheet
       \/ /\ trace = <<Step("xlsx", <<>>)>>
          /\ sheet \in InputSheets
    /\ store = NoFile
    /\ callLog = <<>>
    /\ NoPipeline
    /\ NoCall

\* jsonData.map(item => flattenObject(item))
Flatten ==
    /\ Len(trace) <= MaxOps
    /\ LastOp \in {"json", "unflatten"}
    /\ trace' = Append(trace, Step("flatten", [i \in DOMAIN Doc |-> flattenObject(Doc[i], "")]))
    /\ UNCHANGED <<sheet, storeVars, pipeVars>>
    /\ UNCHANGED callVars

\* unflattenObject on each row
Unflatten ==
    /\ Len(trace) <= MaxOps
    /\ LastOp \in {"json", "flatten"}
    /\ trace' = Append(trace, Step("unflatten", [i \in DOMAIN Doc |-> unflattenObject(Doc[i])]))
    /\ UNCHANGED <<sheet, storeVars, pipeVars>>
    /\ UNCHANGED callVars

\* the batch is written to a worksheet
WriteExcel ==
    /\ Len(trace) <= MaxOps
    /\ LastOp \in {"json", "read"}
    /\ sheet' = writeExcelData(Doc)
    /\ trace' = Append(trace, Step("write", Doc))
    /\ UNCHANGED <<storeVars, pipeVars>>
    /\ UNCHANGED callVars

\* the worksheet is read back
ReadExcel ==
    /\ Len(trace) <= MaxOps
    /\ LastOp \in {"xlsx", "write"}
    /\ sheet.present
    /\ trace' = Append(trace, Step("read", readExcelData(sheet)))
    /\ UNCHANGED <<sheet, storeVars, pipeVars>>
    /\ UNCHANGED callVars

NextCodec == Flatten \/ Unflatten \/ WriteExcel \/ ReadExcel

SpecCodec == InitCodec /\ [][NextCodec]_vars

-----------------------------------------------------------------------------
(* Properties of the codec *)

Ops == [i \in DOMAIN trace |-> trace[i].op]

\* the batch the last step was applied to
Prev == trace[Len(trace) - 1].doc

\* the batch a run started from
Input == trace[1].doc

CommaFree(s) == \A i \in DOMAIN s : s[i] # ","

\* no element holds the separator ', '
SeparatorFree(s) == Occurrences(s, CommaSpace) = {}

Trimmed(s) == s # <<>> /\ ~IsSpace(s[1]) /\ ~IsSpace(s[Len(s)])

\* the only sequence-valued fields are registered array fields of comma-free
\* strings, and there is no nested record
RoundTripShape(r) ==
    \A i \in DOMAIN r :
        /\ r[i].v.t # "obj"
        /\ r[i].v.t = "arr" =>
              /\ r[i].k \in arrayFields
              /\ \A j \in DOMAIN r[i].v.a :
                    r[i].v.a[j].t = "str" /\ CommaFree(r[i].v.a[j].s)

\* moreover no field is null, every registered array field holds a sequence,
\* and the elements are not empty and carry no leading or trailing whitespace
ExactShape(r) ==
    /\ RoundTripShape(r)
    /\ \A i \in DOMAIN r :
          /\ r[i].v.t # "null"
          /\ r[i].k \in arrayFields => r[i].v.t = "arr"
          /\ \A j \in DOMAIN r[i].v.a : Trimmed(r[i].v.a[j].s)

FlattenedThenUnflattened == Ops = <<"json", "flatten", "unflatten">>

\* C1 as stated: unflattenObject(flattenObject(r)) equals r for every record r
\* whose only sequence-valued fields are registered array fields of comma-free
\* strings and that has no nested record.
C1_AsStated ==
    FlattenedThenUnflattened =>
        \A i \in DOMAIN Input : RoundTripShape(Input[i]) => Doc[i] = Input[i]

\* C1 (amended): unflattenObject(flattenObject(r)) equals r for every such record
\* r that has no null field, whose registered array fields all hold sequences,
\* and whose sequence elements are non-empty strings without leading or trailing
\* whitespace.
C1_RoundTrip ==
    FlattenedThenUnflattened =>
        \A i \in DOMAIN Input : ExactShape(Input[i]) => Doc[i] = Input[i]

C1_Witness ==
    /\ FlattenedThenUnflattened
    /\ Input = <<<<Prop("inputs", Arr(<<sA, sB>>)), Prop("task", Str(<<" ", "b">>))>>>>
    /\ ExactShape(Input[1])
    /\ Doc = Input

\* a flat row: every value is a scalar
IsFlatRow(r) == \A i \in DOMAIN r : r[i].v.t \in {"str", "num", "null"}

\* C2: for any flat row, the value unflattenObject produces for a registered
\* array field is a sequence, never a scalar, whatever the flat value was.
C2_AlwaysSequence ==
    LastOp = "unflatten" =>
        \A i \in DOMAIN Doc :
            IsFlatRow(Prev[i]) =>
                \A j \in DOMAIN Doc[i] :
                    Doc[i][j].k \in arrayFields => Doc[i][j].v.t = "arr"

\* C3: for every registered array field f, unflattenObject({f: ""}) has the key
\* f, with the empty sequence as its value.
C3_EmptyIsEmptyArray ==
    LastOp = "unflatten" =>
        \A i \in DOMAIN Prev : \A f \in arrayFields :
            (HasKey(Prev[i], f) /\ Get(Prev[i], f) = EmptyStr) =>
                (HasKey(Doc[i], f) /\ Get(Doc[i], f) = Arr(<<>>))

C3_Witness ==
    /\ Ops = <<"json", "unflatten">>
    /\ \A f \in arrayFields : HasKey(Input[1], f) /\ Get(Input[1], f) = EmptyStr
    /\ \A f \in arrayFields : HasKey(Doc[1], f) /\ Get(Doc[1], f) = Arr(<<>>)

RECURSIVE Joined(_)
\* the elements as text, in order, with ", " between neighbours
Joined(a) ==
    IF a = <<>> THEN <<>>
    ELSE IF Len(a) = 1 THEN a[1].s
    ELSE Joined(SubSeq(a, 1, Len(a) - 1)) \o <<",", " ">> \o a[Len(a)].s

\* what C4 says a field becomes; a field of another kind is left to the code
FieldImage(k, v) ==
    IF v.t = "null" THEN <<Prop(k, EmptyStr)>>
    ELSE IF v.t = "arr" /\ v.a = <<>> THEN <<Prop(k, EmptyStr)>>
    ELSE IF v.t = "arr" /\ \A i \in DOMAIN v.a : v.a[i].t \in {"str", "num"}
         THEN <<Prop(k, Str(Joined(v.a)))>>
         ELSE flattenObject(<<Prop(k, v)>>, "")

RECURSIVE RecordImage(_)
\* the images of the fields, in order, a later one replacing an earlier one
\* at the same key
RecordImage(r) ==
    IF r = <<>> THEN <<>>
    ELSE Assign(RecordImage(SubSeq(r, 1, Len(r) - 1)), FieldImage(r[Len(r)].k, r[Len(r)].v))

ScenarioA == <<Prop("inputs", Arr(<<sA, sB>>)), Prop("outputs", Arr(<<>>))>>

ScenarioAFlat == <<Prop("inputs", Str(<<"a", ",", " ", "b">>)), Prop("outputs", EmptyStr)>>

\* C4: flattenObject maps a null value to the empty string, an empty sequence
\* to the empty string and a sequence of scalars to its elements joined with
\* ", "; {"inputs": ["a","b"], "outputs": []} flattens to
\* {"inputs": "a, b", "outputs": ""}.
C4_FlattenMapping ==
    LastOp = "flatten" =>
        \A i \in DOMAIN Doc :
            /\ Doc[i] = RecordImage(Prev[i])
            /\ Prev[i] = ScenarioA => Doc[i] = ScenarioAFlat

C4_Witness ==
    /\ Ops = <<"json", "flatten">>
    /\ Input = <<ScenarioA>>
    /\ Doc = <<ScenarioAFlat>>

RECURSIVE LeafPaths(_, _)
\* the names of the leaves of a record: a top-level name, or parent.child
LeafPaths(r, parent) ==
    UNION {LET path == IF parent = "" THEN r[i].k ELSE parent \o "." \o r[i].k
           IN  IF r[i].v.t = "obj" THEN LeafPaths(r[i].v.o, path) ELSE {path}
           : i \in DOMAIN r}

\* C5: the output of flattenObject has no nested structure: no value is a
\* nested record or a sequence, and every key is a top-level field name of the
\* input or the dotted path of one of its leaves.
C5_FlatOutput ==
    LastOp = "flatten" =>
        \A i \in DOMAIN Doc :
            /\ \A j \in DOMAIN Doc[i] : Doc[i][j].v.t \in {"str", "num"}
            /\ KeysOf(Doc[i]) \subseteq LeafPaths(Prev[i], "")

C5_Witness ==
    /\ Ops = <<"json", "flatten">>
    /\ \E j \in DOMAIN Input[1] : Input[1][j].v.t = "obj"
    /\ HasKey(Doc[1], "task.x")
    /\ HasKey(Doc[1], "task.y.z")
    /\ Get(Doc[1], "task.y.z") = Str(<<"a", ",", " ", "b">>)

\* C6: unflattenObject leaves every key that is not a registered array field
\* unchanged, dotted keys included, and the output has the keys of the input.
C6_UnflattenFrame ==
    LastOp = "unflatten" =>
        \A i \in DOMAIN Doc :
            /\ [j \in DOMAIN Doc[i] |-> Doc[i][j].k] = [j \in DOMAIN Prev[i] |-> Prev[i][j].k]
            /\ \A j \in DOMAIN Doc[i] :
                  Doc[i][j].k \notin arrayFields => Doc[i][j] = Prev[i][j]

C6_Witness ==
    /\ Ops = <<"json", "flatten", "unflatten">>
    /\ HasKey(Input[1], "task") /\ Get(Input[1], "task").t = "obj"
    /\ HasKey(Doc[1], "task.inputs")
    /\ Get(Doc[1], "task.inputs") = Str(<<"a", ",", " ", "b">>)

JsonToXlsxToJson == Ops = <<"json", "write", "read">>

\* C7 as stated: for every batch, writing the flattened records to a worksheet
\* and reading them back gives as many records, equal to the originals after
\* normalisation.
C7_AsStated ==
    JsonToXlsxToJson =>
        /\ Len(Doc) = Len(Input)
        /\ BatchEqual(NormalizeBatch(Doc), NormalizeBatch(Input))

\* the records have the keys of the first one, and at least one; a registered
\* array field holds a sequence of strings without ", ", any other field a string
TableShape(batch) ==
    \A i \in DOMAIN batch :
        /\ batch[i] # <<>>
        /\ KeysOf(batch[i]) = KeysOf(batch[1])
        /\ \A j \in DOMAIN batch[i] :
              IF batch[i][j].k \in arrayFields
              THEN /\ batch[i][j].v.t = "arr"
                   /\ \A e \in DOMAIN batch[i][j].v.a :
                         /\ batch[i][j].v.a[e].t = "str"
                         /\ SeparatorFree(batch[i][j].v.a[e].s)
              ELSE batch[i][j].v.t = "str"

\* C7 (amended): the round trip gives as many records, equal to the originals
\* after normalisation, for every batch whose records all have the same,
\* non-empty set of keys, whose registered array fields hold sequences of
\* strings that do not contain ", ", and whose other fields hold strings.
C7_JsonRoundTrip ==
    (JsonToXlsxToJson /\ TableShape(Input)) =>
        /\ Len(Doc) = Len(Input)
        /\ BatchEqual(NormalizeBatch(Doc), NormalizeBatch(Input))

C7_Witness ==
    /\ JsonToXlsxToJson
    /\ TableShape(Input)
    /\ Len(Input) = 2
    /\ Input[1] # Input[2]
    /\ \E j \in DOMAIN Input[1] : Input[1][j].v.t = "arr" /\ Len(Input[1][j].v.a) = 2
    /\ Doc # Input
    /\ BatchEqual(NormalizeBatch(Doc), NormalizeBatch(Input))

\* every value of every row is a string
StringRows(batch) ==
    \A i \in DOMAIN batch : \A j \in DOMAIN batch[i] : batch[i][j].v.t = "str"

\* C8: decoding a worksheet, writing the records to a worksheet and decoding
\* that again gives as many records as the first decoding, equal to them after
\* normalisation; and unflatten(flatten(unflatten(f))) = unflatten(f) for flat
\* string rows f.
C8_XlsxRoundTrip ==
    /\ Ops = <<"xlsx", "read", "write", "read">> =>
          /\ Len(Doc) = Len(trace[2].doc)
          /\ BatchEqual(NormalizeBatch(Doc), NormalizeBatch(trace[2].doc))
    /\ (Ops = <<"json", "unflatten", "flatten", "unflatten">> /\ StringRows(Input)) =>
          /\ Len(Doc) = Len(trace[2].doc)
          /\ BatchEqual(NormalizeBatch(Doc), NormalizeBatch(trace[2].doc))

C8_Witness ==
    /\ Ops = <<"xlsx", "read", "write", "read">>
    /\ Len(Doc) = 2
    /\ \E j \in DOMAIN Doc[1] : Doc[1][j].v.t = "arr" /\ Len(Doc[1][j].v.a) = 2
    /\ Doc = trace[2].doc

-----------------------------------------------------------------------------
(* Store runs: the store is reset, then values are learned in any order      *)

\* the most updateAvailableOptions calls of a store run
MaxLearns == 3

LearnFields == {"task", "taskProduct"}

va == Str(<<"a">>)

vB == Str(<<"B">>)

vab == Str(<<"a", "b">>)

vb == Str(<<"b">>)

\* the values of a call: none, one, several, repeated, in and out of order
ValueLists ==
    {<<>>, <<va>>, <<vB>>, <<vb, va>>, <<va, vb>>, <<vab, va, vab>>, <<vb, vB, vab, va>>}

\* the relationship maps of a call
RelationMaps ==
    {<<<<>>, <<>>, <<>>>>,
     <<<<Prop(<<"B">>, Arr(<<vb, va>>))>>, <<Prop(<<"a">>, Arr(<<vB>>))>>,
       <<Prop(<<"a">>, Arr(<<>>))>>>>,
     <<<<Prop(<<"a">>, Arr(<<va>>))>>, <<>>, <<Prop(<<"B">>, Arr(<<vb>>))>>>>}

InitStore ==
    /\ store = initializeAvailableOptions
    /\ callLog = <<>>
    /\ trace = <<>>
    /\ sheet = NoSheet
    /\ NoPipeline
    /\ NoCall

\* initializeAvailableOptions()
Reset ==
    /\ callLog # <<>>
    /\ store' = initializeAvailableOptions
    /\ callLog' = <<>>
    /\ UNCHANGED <<codecVars, pipeVars>>
    /\ UNCHANGED callVars

\* updateAvailableOptions(f, values)
Learn ==
    /\ Len(callLog) < MaxLearns
    /\ \E f \in LearnFields, values \in ValueLists :
          /\ store' = updateAvailableOptions(store, f, values)
          /\ callLog' = Append(callLog, [field |-> f, values |-> values])
    /\ UNCHANGED <<codecVars, pipeVars>>
    /\ UNCHANGED callVars

\* updateAvailableOptionsRelationships(...)
SetRelationships ==
    /\ \E m \in RelationMaps :
          store' = updateAvailableOptionsRelationships(store, m[1], m[2], m[3])
    /\ UNCHANGED <<callLog, codecVars, pipeVars>>
    /\ UNCHANGED callVars

NextStore == Reset \/ Learn \/ SetRelationships

SpecStore == InitStore /\ [][NextStore]_vars

-----------------------------------------------------------------------------
(* Properties of the store *)

\* the values given for field f since the reset
LearnedValues(f) ==
    UNION {Range(callLog[i].values) : i \in {j \in DOMAIN callLog : callLog[j].field = f}}

\* sorted, and no value twice: each element is below the next
StrictlySorted(a) == \A i \in DOMAIN a : i < Len(a) => StrLess(a[i].s, a[i + 1].s)

\* C9: after learn(f, V1), ..., learn(f, Vn) from a reset store the list stored
\* for f is the sorted list of the distinct values of V1 \cup ... \cup Vn,
\* whatever the order of the calls and however often a value is given.
C9_LearnIsUnion ==
    \A f \in LearnFields :
        IF \E i \in DOMAIN callLog : callLog[i].field = f
        THEN /\ HasKey(store.doc, f)
             /\ Get(store.doc, f).t = "arr"
             /\ StrictlySorted(Get(store.doc, f).a)
             /\ Range(Get(store.doc, f).a) = LearnedValues(f)
        ELSE ~HasKey(store.doc, f)

\* the same values learned twice, then others: the list is as after one run
C9_Witness ==
    /\ Len(callLog) = 3
    /\ callLog[1] = [field |-> "task", values |-> <<vb, vB, vab, va>>]
    /\ callLog[2] = callLog[1]
    /\ callLog[3] = [field |-> "task", values |-> <<vab, va, vab>>]
    /\ Get(store.doc, "task") = Arr(<<vB, va, vab, vb>>)
    /\ HasKey(store.doc, "task_responsibilities")

-----------------------------------------------------------------------------
(* Learning and validation: extractUniqueValues, validateData and the        *)
(* relationship builders.  A row is the sequence of its properties; a row    *)
(* that is not an object (a number, a string) has no property.               *)

Undefined == [t |-> "undefined", s |-> <<>>, a |-> <<>>, o |-> <<>>]

\* row[fieldName]
Field(row, fieldName) == IF HasKey(row, fieldName) THEN Get(row, fieldName) ELSE Undefined

\* the value counts as true in a condition; the model has no 0 and no NaN
Truthy(v) ==
    CASE v.t \in {"undefined", "null"} -> FALSE
      [] v.t = "str" -> v.s # <<>>
      [] OTHER -> TRUE

RECURSIVE Concat(_)
\* the sequences of a sequence, one after the other
Concat(ss) == IF ss = <<>> THEN <<>> ELSE ss[1] \o Concat(Tail(ss))

RECURSIVE StringOf(_)
\* String(v)
StringOf(v) ==
    CASE v.t \in {"str", "num"} -> v.s
      [] v.t = "null" -> <<"n", "u", "l", "l">>
      [] v.t = "undefined" -> <<"u", "n", "d", "e", "f", "i", "n", "e", "d">>
      [] v.t = "arr" ->
            join([i \in DOMAIN v.a |->
                     Str(IF v.a[i].t \in {"null", "undefined"} THEN <<>> ELSE StringOf(v.a[i]))],
                 <<",">>)
      [] OTHER -> <<"[", "o", "b", "j", "e", "c", "t", " ", "O", "b", "j", "e", "c", "t", "]">>

\* Array.isArray(v) ? v : [v]
AsArray(v) == IF v.t = "arr" THEN v.a ELSE <<v>>

\* row[field] !== undefined && row[field] !== null && row[field] !== ''
HasValue(v) == v.t \notin {"undefined", "null"} /\ v # EmptyStr

\* the values are added as they are, not trimmed
RowValues_NoTrim(row, fieldName) ==
    LET fieldValue == Field(row, fieldName)
        strings    == [i \in DOMAIN AsArray(fieldValue) |-> Str(StringOf(AsArray(fieldValue)[i]))]
    IN  IF HasValue(fieldValue) THEN SelectSeq(strings, Truthy) ELSE <<>>

\* the values one row adds to the set: trimmed, the empty ones left out
RowValues(row, fieldName) ==
    LET fieldValue == Field(row, fieldName)
        trimmed    == [i \in DOMAIN AsArray(fieldValue) |->
                          Str(trim(StringOf(AsArray(fieldValue)[i])))]
    IN  IF HasValue(fieldValue) THEN SelectSeq(trimmed, Truthy) ELSE <<>>

extractUniqueValues(rows, fieldName) ==
    sort(Unique(Concat([i \in DOMAIN rows |-> RowValues(rows[i], fieldName)])))

\* without extras/field_options.json: the store or nothing
loadFieldOptions_NoFallback(file, fieldOptionsFile) == ReadOptions(file)

\* the object loadFieldOptions returns; fieldOptionsFile is extras/field_options.json
loadFieldOptions(file, fieldOptionsFile) ==
    IF file.exists /\ file.valid THEN file.doc ELSE ReadOptions(fieldOptionsFile)

fieldsToValidate ==
    <<"inputs", "outputs", "enhancement", "enhancement-order", "responsibility_options",
      "task", "taskProduct">>

\* field.replace(/-/g, '_'): one name of the list has a hyphen
FieldKey(field) == IF field = "enhancement-order" THEN "enhancement_order" ELSE field

\* fieldOptions[field] || fieldOptions[fieldKey]
AllowedOptions(fieldOptions, field) ==
    IF Truthy(Field(fieldOptions, field)) THEN Field(fieldOptions, field)
    ELSE Field(fieldOptions, FieldKey(field))

ValidationError(row, field, value, validOptions) ==
    [row |-> row, field |-> field, value |-> value, validOptions |-> validOptions]

\* only the first value of the field that is no option is reported
FieldErrors_FirstOnly(row, rowIndex, field, fieldOptions) ==
    LET allowedOptions == AllowedOptions(fieldOptions, field)
        values         == AsArray(Field(row, field))
        trimmedValue   == [i \in DOMAIN values |-> Str(trim(StringOf(values[i])))]
        invalid        == SelectSeq(trimmedValue,
                                    LAMBDA v : Truthy(v) /\ v \notin Range(allowedOptions.a))
    IN  IF HasValue(Field(row, field)) /\ allowedOptions.t = "arr" /\ allowedOptions.a # <<>>
           /\ invalid # <<>>
        THEN <<ValidationError(rowIndex + 2, field, invalid[1], allowedOptions.a)>>
        ELSE <<>>

\* a field without options is validated against no options: nothing passes
FieldErrors_RejectUnknown(row, rowIndex, field, fieldOptions) ==
    LET allowedOptions == AllowedOptions(fieldOptions, field)
        options        == IF allowedOptions.t = "arr" THEN allowedOptions.a ELSE <<>>
        values         == AsArray(Field(row, field))
        trimmedValue   == [i \in DOMAIN values |-> Str(trim(StringOf(values[i])))]
        invalid        == SelectSeq(trimmedValue,
                                    LAMBDA v : Truthy(v) /\ v \notin Range(options))
    IN  IF HasValue(Field(row, field))
        THEN [i \in DOMAIN invalid |-> ValidationError(rowIndex + 2, field, invalid[i], options)]
        ELSE <<>>

\* the rows are numbered from 1, the header row not counted
FieldErrors_NoHeaderRow(row, rowIndex, field, fieldOptions) ==
    LET allowedOptions == AllowedOptions(fieldOptions, field)
        values         == AsArray(Field(row, field))
        trimmedValue   == [i \in DOMAIN values |-> Str(trim(StringOf(values[i])))]
        invalid        == SelectSeq(trimmedValue,
                                    LAMBDA v : Truthy(v) /\ v \notin Range(allowedOptions.a))
    IN  IF HasValue(Field(row, field)) /\ allowedOptions.t = "arr" /\ allowedOptions.a # <<>>
        THEN [i \in DOMAIN invalid |->
                 ValidationError(rowIndex + 1, field, invalid[i], allowedOptions.a)]
        ELSE <<>>

\* the errors of one field of the row at rowIndex (from 0)
FieldErrors(row, rowIndex, field, fieldOptions) ==
    LET allowedOptions == AllowedOptions(fieldOptions, field)
        values         == AsArray(Field(row, field))
        trimmedValue   == [i \in DOMAIN values |-> Str(trim(StringOf(values[i])))]
        invalid        == SelectSeq(trimmedValue,
                                    LAMBDA v : Truthy(v) /\ v \notin Range(allowedOptions.a))
    IN  IF HasValue(Field(row, field)) /\ allowedOptions.t = "arr" /\ allowedOptions.a # <<>>
        THEN [i \in DOMAIN invalid |->
                 ValidationError(rowIndex + 2, field, invalid[i], allowedOptions.a)]
        ELSE <<>>

RowErrors(row, rowIndex, fieldOptions) ==
    Concat([i \in DOMAIN fieldsToValidate |->
               FieldErrors(row, rowIndex, fieldsToValidate[i], fieldOptions)])

\* the fields are the outer loop, the rows the inner one
validateData_FieldMajor(rows, fieldOptions) ==
    Concat([n \in DOMAIN fieldsToValidate |->
               Concat([i \in DOMAIN rows |->
                          FieldErrors(rows[i], i - 1, fieldsToValidate[n], fieldOptions)])])

validateData(rows, fieldOptions) ==
    Concat([i \in DOMAIN rows |-> RowErrors(rows[i], i - 1, fieldOptions)])

\* r && r.trim() !== ''
NonBlank(r) == Truthy(r) /\ trim(r.s) # <<>>

\* r.trim() is called on a value that has no trim: a TypeError is thrown
TrimThrows(a) == \E i \in DOMAIN a : Truthy(a[i]) /\ a[i].t # "str"

RECURSIVE buildTaskResponsibilities_Merge(_)
\* the options of a later row of the task are added to those of earlier rows
buildTaskResponsibilities_Merge(rows) ==
    IF rows = <<>> THEN <<>>
    ELSE LET taskRow          == rows[Len(rows)]
             before           == buildTaskResponsibilities_Merge(SubSeq(rows, 1, Len(rows) - 1))
             task             == Field(taskRow, "task")
             responsibilities == Field(taskRow, "responsibility_options")
             listed           == IF HasKey(before, StringOf(task))
                                 THEN Get(before, StringOf(task)).a ELSE <<>>
         IN  IF Truthy(task) /\ Truthy(responsibilities)
             THEN Put(before, StringOf(task),
                      Arr(listed \o SelectSeq(AsArray(responsibilities), NonBlank)))
             ELSE before

RECURSIVE buildTaskResponsibilities(_)
buildTaskResponsibilities(rows) ==
    IF rows = <<>> THEN <<>>
    ELSE LET taskRow          == rows[Len(rows)]
             before           == buildTaskResponsibilities(SubSeq(rows, 1, Len(rows) - 1))
             task             == Field(taskRow, "task")
             responsibilities == Field(taskRow, "responsibility_options")
         IN  IF Truthy(task) /\ Truthy(responsibilities)
             THEN Put(before, StringOf(task),
                      Arr(SelectSeq(AsArray(responsibilities), NonBlank)))
             ELSE before

\* only the first task that has the output is listed
AddProducer_First(producers, output, task) ==
    IF ~NonBlank(output) \/ HasKey(producers, StringOf(output)) THEN producers
    ELSE Put(producers, StringOf(output), Arr(<<task>>))

\* taskProductProducers after one output of the row of task
AddProducer(producers, output, task) ==
    LET key     == StringOf(output)
        listed  == IF HasKey(producers, key) THEN Get(producers, key).a ELSE <<>>
    IN  IF ~NonBlank(output) THEN producers
        ELSE Put(producers, key, Arr(IF task \in Range(listed) THEN listed
                                     ELSE Append(listed, task)))

RECURSIVE AddProducers(_, _, _)
AddProducers(producers, outputArray, task) ==
    IF outputArray = <<>> THEN producers
    ELSE AddProducer(AddProducers(producers, SubSeq(outputArray, 1, Len(outputArray) - 1), task),
                     outputArray[Len(outputArray)], task)

RECURSIVE buildTaskProductProducers(_)
buildTaskProductProducers(rows) ==
    IF rows = <<>> THEN <<>>
    ELSE LET taskRow == rows[Len(rows)]
             before  == buildTaskProductProducers(SubSeq(rows, 1, Len(rows) - 1))
             task    == Field(taskRow, "task")
             outputs_ == Field(taskRow, "outputs")
         IN  IF Truthy(task) /\ Truthy(outputs_)
             THEN AddProducers(before, AsArray(outputs_), task)
             ELSE before

RECURSIVE buildTaskProductEnhancements(_)
buildTaskProductEnhancements(rows) ==
    IF rows = <<>> THEN <<>>
    ELSE LET row              == rows[Len(rows)]
             before           == buildTaskProductEnhancements(SubSeq(rows, 1, Len(rows) - 1))
             taskProduct      == Field(row, "taskProduct")
             enhancementOrder == Field(row, "enhancement-order")
             enhancements     == IF enhancementOrder.t = "arr" THEN enhancementOrder.a ELSE <<>>
         IN  IF Truthy(taskProduct)
             THEN Put(before, StringOf(taskProduct), Arr(SelectSeq(enhancements, NonBlank)))
             ELSE before

\* one of the three builders throws on these batches
BuildThrows(taskProducts, tasks) ==
    \/ \E i \in DOMAIN tasks :
          /\ Truthy(Field(tasks[i], "task"))
          /\ \/ /\ Truthy(Field(tasks[i], "responsibility_options"))
                /\ TrimThrows(AsArray(Field(tasks[i], "responsibility_options")))
             \/ /\ Truthy(Field(tasks[i], "outputs"))
                /\ TrimThrows(AsArray(Field(tasks[i], "outputs")))
    \/ \E i \in DOMAIN taskProducts :
          /\ Truthy(Field(taskProducts[i], "taskProduct"))
          /\ Field(taskProducts[i], "enhancement-order").t = "arr"
          /\ TrimThrows(Field(taskProducts[i], "enhancement-order").a)

\* row[name] if it has a value, else null
OrNull(v) == IF Truthy(v) THEN v ELSE Null

\* the three compound specification fields
responsibilitySpecification == "responsibility specification (Task:Responsibility)"

transformationSpecification == "transformation specification (taskProduct:task)"

enhancementSpecification == "enhancement medium specification (enhancement:taskProduct)"

compoundFields ==
    <<responsibilitySpecification, transformationSpecification, enhancementSpecification>>

\* the fields a service specification records
specificationFields == <<"taskProduct", "enhancement">> \o compoundFields

RECURSIVE buildServiceSpecifications(_)
buildServiceSpecifications(rows) ==
    IF rows = <<>> THEN <<>>
    ELSE LET row     == rows[Len(rows)]
             before  == buildServiceSpecifications(SubSeq(rows, 1, Len(rows) - 1))
             service == Field(row, "Service")
         IN  IF Truthy(service)
             THEN Put(before, StringOf(service),
                      Obj([i \in DOMAIN specificationFields |->
                              Prop(specificationFields[i],
                                   OrNull(Field(row, specificationFields[i])))]))
             ELSE before

\* the file after updateAvailableOptionsServiceSpecs(serviceSpecs)
updateAvailableOptionsServiceSpecs(file, serviceSpecs) ==
    FileOf(Put(ReadOptions(file), "service_specifications", Obj(serviceSpecs)))

-----------------------------------------------------------------------------
(* The compound pass of the validator                                        *)

\* the first two parts are the sides, however many colons there are
Sides_AnyColons(value) ==
    LET parts == split(StringOf(value), <<":">>)
    IN  IF Len(parts) >= 2 THEN <<Str(trim(parts[1])), Str(trim(parts[2]))>> ELSE <<>>

\* the two sides of left:right, trimmed; <<>> unless there is exactly one colon
Sides(value) ==
    LET parts == split(StringOf(value), <<":">>)
    IN  IF Len(parts) = 2 THEN <<Str(trim(parts[1])), Str(trim(parts[2]))>> ELSE <<>>

\* left.trim() + ":" + right.trim()
Compound(left, right) == Str(left.s \o <<":">> \o right.s)

\* the values the store knows for a field
Known(fieldOptions, fieldName) ==
    IF Field(fieldOptions, fieldName).t = "arr" THEN Field(fieldOptions, fieldName).a ELSE <<>>

\* the entry of a relationship map for a name, undefined when it has none
Related(fieldOptions, relationship, name) ==
    LET map == Field(fieldOptions, relationship)
    IN  IF map.t = "obj" /\ HasKey(map.o, name.s) THEN Get(map.o, name.s) ELSE Undefined

\* the raw task batch the pipeline attaches to the options
RawTasks(fieldOptions) ==
    IF Field(fieldOptions, "_tasksData").t = "arr"
    THEN [i \in DOMAIN Field(fieldOptions, "_tasksData").a |->
             Field(fieldOptions, "_tasksData").a[i].o]
    ELSE <<>>

\* the task row carries the enhancement
Carries(task, enhancement) == Field(task, "enhancement") = enhancement

\* the task row carries the enhancement and has the product in its inputs
\* and in its outputs
Transforms(task, enhancement, taskProduct) ==
    /\ Carries(task, enhancement)
    /\ taskProduct \in Range(AsArray(Field(task, "inputs")))
    /\ taskProduct \in Range(AsArray(Field(task, "outputs")))

\* the names of the task rows that carry the enhancement
TasksCarrying(tasks, enhancement) ==
    LET carrying == SelectSeq(tasks, LAMBDA task : Carries(task, enhancement))
    IN  [i \in DOMAIN carrying |-> Field(carrying[i], "task")]

\* the error of a side that must be one of a list and is not
Unless(ok, row, field, value, validOptions) ==
    IF ok THEN <<>> ELSE <<ValidationError(row, field, value, validOptions)>>

\* Task:Responsibility: a known task; a responsibility of its entry if it has one
ResponsibilityErrors(left, right, rowIndex, fieldOptions) ==
    LET entry == Related(fieldOptions, "task_responsibilities", left)
    IN  Unless(left \in Range(Known(fieldOptions, "task")),
               rowIndex + 2, responsibilitySpecification, left, Known(fieldOptions, "task"))
        \o Unless(entry.t # "arr" \/ right \in Range(entry.a),
                  rowIndex + 2, responsibilitySpecification, right, entry.a)

\* taskProduct:task: a known product; a producer of its entry if it has one
TransformationErrors(left, right, rowIndex, fieldOptions) ==
    LET entry == Related(fieldOptions, "taskProduct_producers", left)
    IN  Unless(left \in Range(Known(fieldOptions, "taskProduct")),
               rowIndex + 2, transformationSpecification, left,
               Known(fieldOptions, "taskProduct"))
        \o Unless(entry.t # "arr" \/ right \in Range(entry.a),
                  rowIndex + 2, transformationSpecification, right, entry.a)

\* the raw task batch is not looked at
CrossReference_Skipped(left, right, rowIndex, fieldOptions) == <<>>

\* enhancement:taskProduct against the raw task batch: some task row carries
\* the enhancement with the product in its inputs and in its outputs
CrossReference(left, right, rowIndex, fieldOptions) ==
    Unless(\E i \in DOMAIN RawTasks(fieldOptions) :
               Transforms(RawTasks(fieldOptions)[i], left, right),
           rowIndex + 2, enhancementSpecification, Compound(left, right),
           TasksCarrying(RawTasks(fieldOptions), left))

\* enhancement:taskProduct: a known enhancement, a known product, an
\* enhancement of the product's entry if it has one, and the cross-reference
EnhancementErrors(left, right, rowIndex, fieldOptions) ==
    LET entry == Related(fieldOptions, "taskProduct_enhancements", right)
    IN  Unless(left \in Range(Known(fieldOptions, "enhancement")),
               rowIndex + 2, enhancementSpecification, left,
               Known(fieldOptions, "enhancement"))
        \o Unless(right \in Range(Known(fieldOptions, "taskProduct")),
                  rowIndex + 2, enhancementSpecification, right,
                  Known(fieldOptions, "taskProduct"))
        \o Unless(entry.t # "arr" \/ left \in Range(entry.a),
                  rowIndex + 2, enhancementSpecification, left, entry.a)
        \o CrossReference(left, right, rowIndex, fieldOptions)

\* the errors of one compound field of the row at rowIndex (from 0)
CompoundErrors(row, rowIndex, field, fieldOptions) ==
    LET sides == Sides(Field(row, field))
    IN  IF ~HasValue(Field(row, field)) \/ sides = <<>> THEN <<>>
        ELSE CASE field = responsibilitySpecification ->
                      ResponsibilityErrors(sides[1], sides[2], rowIndex, fieldOptions)
               [] field = transformationSpecification ->
                      TransformationErrors(sides[1], sides[2], rowIndex, fieldOptions)
               [] field = enhancementSpecification ->
                      EnhancementErrors(sides[1], sides[2], rowIndex, fieldOptions)

\* the compound pass: rows in input order, fields in the declared order
validateCompound(rows, fieldOptions) ==
    Concat([i \in DOMAIN rows |->
               Concat([n \in DOMAIN compoundFields |->
                          CompoundErrors(rows[i], i - 1, compoundFields[n], fieldOptions)])])

\* the validator: the simple pass, then the compound pass
validate(rows, fieldOptions) ==
    validateData(rows, fieldOptions) \o validateCompound(rows, fieldOptions)

-----------------------------------------------------------------------------
(* Pipeline runs: transform_from_json and transform_from_table over the      *)
(* files of a command line                                                   *)

\* the most files on a command line
MaxFiles == 3

Hdr == Str(<<"H", "d", "r", "-", "i", "m", "a", "g", "e", "s">>)

Pano == Str(<<"P", "a", "n", "o">>)

PanoPadded == Str(<<" ", "P", "a", "n", "o">>)

Blur == Str(<<"B", "l", "u", "r">>)

Sharp == Str(<<"S", "h", "a", "r", "p">>)

Stage == Str(<<"S", "t", "a", "g", "e">>)

Blend == Str(<<"b", "l", "e", "n", "d">>)

Blurring == Str(<<"B", "l", "u", "r", "r", "i", "n", "g">>)

Blenx == Str(<<"b", "l", "e", "n", "x">>)

Ed == Str(<<"E", "d">>)

Qa == Str(<<"Q", "a">>)

Photo == Str(<<"P", "h", "o", "t", "o">>)

Video == Str(<<"V", "i", "d", "e", "o">>)

BlendEd == Str(<<"b", "l", "e", "n", "d", ":", " ", "E", "d">>)

\* task products: one row
TaskProducts1 ==
    <<<<Prop("taskProduct", Hdr), Prop("enhancement-order", Arr(<<Blur>>))>>>>

\* task products: out of order, padded, repeated, with an empty element
TaskProducts2 ==
    <<<<Prop("taskProduct", PanoPadded), Prop("enhancement-order", Arr(<<Sharp, Blur>>))>>,
      <<Prop("taskProduct", Hdr), Prop("enhancement-order", Arr(<<Blur>>))>>,
      <<Prop("taskProduct", Hdr), Prop("enhancement-order", Arr(<<>>))>>,
      <<Prop("taskProduct", Pano), Prop("enhancement-order", Arr(<<Blur, EmptyStr>>))>>>>

Tasks1 ==
    <<<<Prop("task", Stage), Prop("enhancement", Sharp),
        Prop("responsibility_options", Arr(<<Qa, Ed>>)),
        Prop("inputs", Arr(<<Hdr>>)), Prop("outputs", Arr(<<Pano, Hdr>>))>>,
      <<Prop("task", Blend), Prop("enhancement", Blur),
        Prop("responsibility_options", Arr(<<Ed>>)),
        Prop("inputs", Arr(<<Hdr>>)), Prop("outputs", Arr(<<Hdr>>))>>,
      <<Prop("task", Blurring), Prop("outputs", Arr(<<Hdr>>))>>>>

\* tasks: an enhancement order TaskProducts1 does not know, a number as option
Tasks2 ==
    <<<<Prop("task", Stage), Prop("enhancement-order", Arr(<<Sharp>>)),
        Prop("responsibility_options", Arr(<<n1>>)), Prop("outputs", Arr(<<Hdr>>))>>,
      <<Prop("task", Blurring), Prop("outputs", Arr(<<Hdr>>))>>>>

Services1 ==
    <<<<Prop("Service", Photo), Prop("task", Blend), Prop("taskProduct", Hdr),
        Prop(responsibilitySpecification, BlendEd)>>>>

\* services: a task no tasks file names
Services2 ==
    <<<<Prop("Service", Video), Prop("task", Blenx)>>,
      <<Prop("Service", Photo), Prop("task", Stage)>>>>

Notes1 == <<<<Prop("task", Stage), Prop("taskProduct", Hdr)>>>>

\* a JSON file: missing; broken (no JSON); none (null); empty ([]); data (an
\* array of objects); object (one object); primitive (a number)
JsonFile(name, kind, rows) == [name |-> name, kind |-> kind, rows |-> rows, sheet |-> NoSheet]

\* a workbook: missing; broken (not a workbook); none (no worksheet); empty
\* (a worksheet without rows); data (the worksheet the tool writes for rows)
TableFile(name, kind, rows) ==
    [name |-> name, kind |-> kind, rows |-> <<>>,
     sheet |-> IF kind \in {"data", "empty"} THEN writeExcelData(rows) ELSE NoSheet]

File(m, name, kind, rows) ==
    IF m = "json" THEN JsonFile(name, kind, rows) ELSE TableFile(name, kind, rows)

Files(m) ==
    {File(m, "blueprint_task_products", "data", TaskProducts1),
     File(m, "blueprint_task_products", "data", TaskProducts2),
     File(m, "blueprint_task_products", "missing", <<>>),
     File(m, "blueprint_tasks", "data", Tasks1),
     File(m, "blueprint_tasks", "data", Tasks2),
     File(m, "blueprint_tasks", "broken", <<>>),
     File(m, "blueprint_tasks", "empty", <<>>),
     File(m, "blueprint_services", "data", Services1),
     File(m, "blueprint_services", "data", Services2),
     File(m, "blueprint_services", "none", <<>>),
     File(m, "notes", IF m = "json" THEN "object" ELSE "data", Notes1),
     File(m, "constructor", "data", Notes1)}
        \cup (IF m = "json" THEN {JsonFile("notes", "primitive", <<<<>>>>)} ELSE {})

\* two files of these have the same base name in two directories
SameName(f, g) ==
    /\ f.name = g.name
    /\ ~(f.name = "blueprint_task_products" /\ f.kind = "data" /\ g.kind = "data" /\ f # g)

\* the command lines: up to MaxFiles files; a base name comes twice only as
\* the two task products files
FileLists(m) ==
    UNION {{fs \in [1..n -> Files(m)] :
               \A i, j \in 1..n : i < j => ~SameName(fs[i], fs[j])} : n \in 1..MaxFiles}

StaleValue == Str(<<"o", "l", "d">>)

\* what a run may find in available_options.json: nothing, or an earlier run's
PriorStores ==
    {NoFile,
     FileOf(<<Prop("task", Arr(<<StaleValue, Blend, StaleValue>>)),
              Prop("task_responsibilities", Obj(<<Prop(StaleValue.s, Arr(<<Ed>>))>>)),
              Prop("service_specifications",
                   Obj(<<Prop(StaleValue.s, Obj(<<Prop("taskProduct", StaleValue)>>))>>))>>)}

\* extras/field_options.json
fieldOptionsFile == FileOf(<<Prop("task", Arr(<<StaleValue>>))>>)

\* the names every object literal inherits from Object.prototype: for these
\* LEARNING_CONFIG[fileBaseName] is a function or the prototype, not undefined
inheritedNames ==
    {"constructor", "toString", "toLocaleString", "valueOf", "hasOwnProperty",
     "isPrototypeOf", "propertyIsEnumerable", "__proto__"}

\* LEARNING_CONFIG[fileBaseName] || { learnFields: [], validate: true }; an
\* inherited value is truthy, its validate is undefined and its learnFields,
\* undefined as well, cannot be iterated
LEARNING_CONFIG(fileBaseName) ==
    CASE fileBaseName \in inheritedNames -> [learnFields |-> <<>>, validate |-> FALSE]
      [] fileBaseName = "blueprint_task_products" ->
            [learnFields |-> <<"taskProduct", "enhancement-order">>, validate |-> FALSE]
      [] fileBaseName = "blueprint_tasks" ->
            [learnFields |-> <<"enhancement", "responsibility_options", "task">>,
             validate |-> TRUE]
      [] fileBaseName = "blueprint_services" ->
            [learnFields |-> <<"Service">>, validate |-> TRUE]
      [] OTHER -> [learnFields |-> <<>>, validate |-> TRUE]

\* the file the loop is at
file == filePaths[idx]

config == LEARNING_CONFIG(file.name)

InitPipeline ==
    /\ mode \in {"json", "table"}
    /\ filePaths \in FileLists(mode)
    /\ store \in PriorStores
    /\ idx = 0
    /\ pc = "init"
    /\ dataArray = <<>>
    /\ fieldIdx = 0
    /\ validationErrors = <<>>
    /\ successCount = 0
    /\ errorCount = 0
    /\ taskProductsData = <<>>
    /\ tasksData = <<>>
    /\ servicesData = <<>>
    /\ outputs = <<>>
    /\ accepted = {}
    /\ NoCall
    /\ callLog = <<>>
    /\ trace = <<>>
    /\ sheet = NoSheet

\* the loop starts on the file as an earlier run left it
Initialize_NoReset ==
    /\ pc = "init"
    /\ pc' = "file"
    /\ UNCHANGED <<codecVars, storeVars, mode, filePaths, accepted, idx, dataArray, fieldIdx,
                   validationErrors, countVars, dataVars, outputs>>
    /\ UNCHANGED callVars

\* initializeAvailableOptions(), before the loop
Initialize ==
    /\ pc = "init"
    /\ store' = initializeAvailableOptions
    /\ callLog' = <<>>
    /\ pc' = "file"
    /\ UNCHANGED <<codecVars, mode, filePaths, accepted, idx, dataArray, fieldIdx,
                   validationErrors, countVars, dataVars, outputs>>
    /\ UNCHANGED callVars

\* the file cannot be turned into a batch: it is counted as an error
Unusable(f) ==
    \/ f.kind = "broken"
    \/ f.kind = "none"
    \/ mode = "json" /\ f.kind = "empty"

\* dataArray (JSON) or rows (workbook) of a usable file
BatchOf(f) == IF mode = "json" THEN f.rows ELSE readExcelData(f.sheet)

\* a file that cannot be turned into a batch is tried again after a reset,
\* and again
ReadFile_Retry ==
    /\ pc = "file"
    /\ idx < Len(filePaths)
    /\ LET f == filePaths[idx + 1]
       IN  IF Unusable(f)
           THEN /\ pc' = "init"
                /\ UNCHANGED <<idx, dataArray, countVars, dataVars>>
           ELSE IF f.kind = "missing"
           THEN /\ idx' = idx + 1
                /\ UNCHANGED <<pc, dataArray, countVars, dataVars>>
           ELSE /\ idx' = idx + 1
                /\ dataArray' = BatchOf(f)
                /\ taskProductsData' =
                      IF f.name = "blueprint_task_products" THEN BatchOf(f)
                      ELSE taskProductsData
                /\ tasksData' = IF f.name = "blueprint_tasks" THEN BatchOf(f) ELSE tasksData
                /\ servicesData' =
                      IF f.name = "blueprint_services" THEN BatchOf(f) ELSE servicesData
                /\ pc' = "validate"
                /\ UNCHANGED countVars
    /\ UNCHANGED <<codecVars, storeVars, mode, filePaths, accepted, fieldIdx,
                   validationErrors, outputs>>
    /\ UNCHANGED callVars

\* the loop takes the next file: it is skipped, or counted as an error, or its
\* batch is read and kept under its name
ReadFile ==
    /\ pc = "file"
    /\ idx < Len(filePaths)
    /\ idx' = idx + 1
    /\ LET f == filePaths[idx + 1]
       IN  IF f.kind = "missing"
           THEN UNCHANGED <<pc, dataArray, countVars, dataVars>>
           ELSE IF Unusable(f)
           THEN /\ errorCount' = errorCount + 1
                /\ UNCHANGED <<pc, dataArray, successCount, dataVars>>
           ELSE /\ dataArray' = BatchOf(f)
                /\ taskProductsData' =
                      IF f.name = "blueprint_task_products" THEN BatchOf(f)
                      ELSE taskProductsData
                /\ tasksData' = IF f.name = "blueprint_tasks" THEN BatchOf(f) ELSE tasksData
                /\ servicesData' =
                      IF f.name = "blueprint_services" THEN BatchOf(f) ELSE servicesData
                /\ pc' = "validate"
                /\ UNCHANGED countVars
    /\ UNCHANGED <<codecVars, storeVars, mode, filePaths, accepted, fieldIdx,
                   validationErrors, outputs>>
    /\ UNCHANGED callVars

\* loadFieldOptions() with _tasksData attached when there are tasks
FieldOptions ==
    LET fieldOptions == loadFieldOptions(store, fieldOptionsFile)
    IN  IF tasksData # <<>>
        THEN Put(fieldOptions, "_tasksData", Arr([i \in DOMAIN tasksData |-> Obj(tasksData[i])]))
        ELSE fieldOptions

\* the errors are reported and the file goes on to the learning
Validate_NoContinue ==
    /\ pc = "validate"
    /\ LET errors == IF config.validate THEN validateData(dataArray, FieldOptions) ELSE <<>>
       IN  /\ validationErrors' = errors
           /\ accepted' = IF errors = <<>> THEN accepted \cup {idx} ELSE accepted
           /\ errorCount' = IF errors # <<>> THEN errorCount + 1 ELSE errorCount
    /\ pc' = "learn"
    /\ fieldIdx' = 1
    /\ UNCHANGED <<codecVars, storeVars, mode, filePaths, idx, dataArray, successCount,
                   dataVars, outputs>>
    /\ UNCHANGED callVars

\* a batch that has errors is dropped from memory
Validate_DropRejected ==
    /\ pc = "validate"
    /\ LET errors == IF config.validate THEN validateData(dataArray, FieldOptions) ELSE <<>>
       IN  /\ validationErrors' = errors
           /\ accepted' = IF errors = <<>> THEN accepted \cup {idx} ELSE accepted
           /\ IF errors # <<>>
              THEN /\ errorCount' = errorCount + 1
                   /\ pc' = "file"
                   /\ tasksData' = IF file.name = "blueprint_tasks" THEN <<>> ELSE tasksData
                   /\ UNCHANGED fieldIdx
              ELSE /\ pc' = "learn"
                   /\ fieldIdx' = 1
                   /\ UNCHANGED <<errorCount, tasksData>>
    /\ UNCHANGED <<codecVars, storeVars, mode, filePaths, idx, dataArray, successCount,
                   taskProductsData, servicesData, outputs>>
    /\ UNCHANGED callVars

\* if (config.validate): errors end the file, else the learning starts
Validate ==
    /\ pc = "validate"
    /\ LET errors == IF config.validate THEN validateData(dataArray, FieldOptions) ELSE <<>>
       IN  /\ validationErrors' = errors
           /\ accepted' = IF errors = <<>> THEN accepted \cup {idx} ELSE accepted
           /\ IF errors # <<>>
              THEN /\ errorCount' = errorCount + 1
                   /\ pc' = "file"
                   /\ UNCHANGED fieldIdx
              ELSE /\ pc' = "learn"
                   /\ fieldIdx' = 1
                   /\ UNCHANGED errorCount
    /\ UNCHANGED <<codecVars, storeVars, mode, filePaths, idx, dataArray, successCount,
                   dataVars, outputs>>
    /\ UNCHANGED callVars

\* one turn of for (const fieldName of config.learnFields)
LearnField ==
    /\ pc = "learn"
    /\ fieldIdx <= Len(config.learnFields)
    /\ LET fieldName == config.learnFields[fieldIdx]
           values    == extractUniqueValues(dataArray, fieldName)
       IN  IF values # <<>>
           THEN /\ store' = updateAvailableOptions(store, fieldName, values)
                /\ callLog' = Append(callLog, [field |-> fieldName, values |-> values])
           ELSE UNCHANGED storeVars
    /\ fieldIdx' = fieldIdx + 1
    /\ UNCHANGED <<codecVars, mode, filePaths, accepted, idx, pc, dataArray, validationErrors,
                   countVars, dataVars, outputs>>
    /\ UNCHANGED callVars

\* for (const fieldName of config.learnFields) on an inherited value: the
\* TypeError goes to the catch of the file
LearnThrows ==
    /\ pc = "learn"
    /\ file.name \in inheritedNames
    /\ errorCount' = errorCount + 1
    /\ pc' = "file"
    /\ UNCHANGED <<codecVars, storeVars, mode, filePaths, accepted, idx, dataArray, fieldIdx,
                   validationErrors, successCount, dataVars, outputs>>
    /\ UNCHANGED callVars

\* the file written to the outputs directory
Output ==
    IF mode = "json"
    THEN [name |-> file.name,
          sheet |-> writeExcelData([i \in DOMAIN dataArray |-> flattenObject(dataArray[i], "")]),
          rows |-> <<>>]
    ELSE [name |-> file.name, sheet |-> NoSheet, rows |-> dataArray]

\* after the learning: the batch is converted and written, the file counted
Convert ==
    /\ pc = "learn"
    /\ file.name \notin inheritedNames
    /\ fieldIdx > Len(config.learnFields)
    /\ IF mode = "json" /\ file.kind = "primitive"
       THEN /\ errorCount' = errorCount + 1
            /\ pc' = "file"
            /\ UNCHANGED <<successCount, outputs>>
       ELSE /\ outputs' = Append(outputs, Output)
            /\ successCount' = successCount + 1
            /\ pc' = "relate"
            /\ UNCHANGED errorCount
    /\ UNCHANGED <<codecVars, storeVars, mode, filePaths, accepted, idx, dataArray, fieldIdx,
                   validationErrors, dataVars>>
    /\ UNCHANGED callVars

\* the maps are built after any file once both batches are there
Relate_AnyFile ==
    /\ pc = "relate"
    /\ IF taskProductsData # <<>> /\ tasksData # <<>>
          /\ ~BuildThrows(taskProductsData, tasksData)
       THEN store' = updateAvailableOptionsRelationships(store,
                         buildTaskResponsibilities(tasksData),
                         buildTaskProductProducers(tasksData),
                         buildTaskProductEnhancements(taskProductsData))
       ELSE UNCHANGED store
    /\ pc' = "specs"
    /\ UNCHANGED <<codecVars, callLog, mode, filePaths, accepted, idx, dataArray, fieldIdx,
                   validationErrors, countVars, dataVars, outputs>>
    /\ UNCHANGED callVars

\* buildAndSaveRelationshipsAfterTasks; a throw goes to the catch of the file
Relate ==
    /\ pc = "relate"
    /\ IF file.name = "blueprint_tasks" /\ taskProductsData # <<>> /\ tasksData # <<>>
       THEN IF BuildThrows(taskProductsData, tasksData)
            THEN /\ errorCount' = errorCount + 1
                 /\ pc' = "file"
                 /\ UNCHANGED store
            ELSE /\ store' = updateAvailableOptionsRelationships(store,
                                 buildTaskResponsibilities(tasksData),
                                 buildTaskProductProducers(tasksData),
                                 buildTaskProductEnhancements(taskProductsData))
                 /\ pc' = "specs"
                 /\ UNCHANGED errorCount
       ELSE /\ pc' = "specs"
            /\ UNCHANGED <<store, errorCount>>
    /\ UNCHANGED <<codecVars, callLog, mode, filePaths, accepted, idx, dataArray, fieldIdx,
                   validationErrors, successCount, dataVars, outputs>>
    /\ UNCHANGED callVars

\* the service specifications, after blueprint_services
Specify ==
    /\ pc = "specs"
    /\ store' = IF file.name = "blueprint_services" /\ servicesData # <<>>
                THEN updateAvailableOptionsServiceSpecs(store,
                         buildServiceSpecifications(servicesData))
                ELSE store
    /\ pc' = "file"
    /\ UNCHANGED <<codecVars, callLog, mode, filePaths, accepted, idx, dataArray, fieldIdx,
                   validationErrors, countVars, dataVars, outputs>>
    /\ UNCHANGED callVars

\* the loop is over: reportSummary
Report ==
    /\ pc = "file"
    /\ idx = Len(filePaths)
    /\ pc' = "done"
    /\ UNCHANGED <<codecVars, storeVars, mode, filePaths, accepted, idx, dataArray, fieldIdx,
                   validationErrors, countVars, dataVars, outputs>>
    /\ UNCHANGED callVars

NextPipeline ==
    \/ Initialize \/ ReadFile \/ Validate \/ LearnField \/ LearnThrows \/ Convert \/ Relate
    \/ Specify \/ Report

SpecPipeline == InitPipeline /\ [][NextPipeline]_vars

\* the loop is synchronous code without step mode: a step that can be taken
\* is taken. This is WF_vars(NextPipeline) with its ENABLED written as the
\* state predicate it amounts to: before the summary some step can be taken
SpecPipelineFair == SpecPipeline /\ ([]<>(pc = "done") \/ []<><<NextPipeline>>_vars)

-----------------------------------------------------------------------------
(* Properties of the pipeline *)

\* the keys of the store that are not learned fields
reservedKeys ==
    {"task_responsibilities", "taskProduct_producers", "taskProduct_enhancements",
     "service_specifications"}

\* the learned field entries of the store
LearnedEntries == SelectSeq(ReadOptions(store), LAMBDA p : p.k \notin reservedKeys)

\* from the reset on, the file holds what this run wrote
Running == pc \notin {"off", "init"}

\* C10: in every state of a pipeline run, each learned field entry of the
\* persisted store is a list in sorted order that holds no value twice.
C10_SortedUnique ==
    Running =>
        /\ store.exists /\ store.valid
        /\ \A i \in DOMAIN LearnedEntries :
              /\ LearnedEntries[i].v.t = "arr"
              /\ StrictlySorted(LearnedEntries[i].v.a)

\* task products met as " Pano", Hdr, Pano, then the tasks: the lists are in
\* order, Pano once, and the relationship maps are in the store beside them
C10_Witness ==
    /\ pc = "done"
    /\ HasKey(store.doc, "taskProduct")
    /\ Get(store.doc, "taskProduct") = Arr(<<Hdr, Pano>>)
    /\ HasKey(store.doc, "task")
    /\ Get(store.doc, "task") = Arr(<<Blurring, Stage, Blend>>)
    /\ HasKey(store.doc, "taskProduct_producers")
    /\ HasKey(store.doc, "service_specifications")

\* C11: between two resets the store only grows: a value that is in the list
\* of a field stays in that list over every later step of the run, be it a
\* learn on any field, the write of the relationship maps or of the service
\* specifications, or a validation that fails.
C11_OnlyGrows ==
    [][Running =>
          \A i \in DOMAIN LearnedEntries :
              /\ HasKey(ReadOptions(store'), LearnedEntries[i].k)
              /\ Range(LearnedEntries[i].v.a)
                    \subseteq Range(Get(ReadOptions(store'), LearnedEntries[i].k).a)]_vars

\* taskProduct learned twice, the second time with a new value, then the
\* relationship maps written: the values of the first call are still there
C11_Witness ==
    /\ Running
    /\ Len(callLog) >= 2
    /\ callLog[1].field = "taskProduct"
    /\ \E j \in DOMAIN callLog : j > 1 /\ callLog[j].field = "taskProduct"
    /\ HasKey(store.doc, "task_responsibilities")
    /\ HasKey(store.doc, "taskProduct")
    /\ Range(callLog[1].values) \subseteq Range(Get(store.doc, "taskProduct").a)
    /\ Len(Get(store.doc, "taskProduct").a) > Len(callLog[1].values)

\* the last file validated was rejected and the loop is back at its head
Rejected == pc = "file" /\ validationErrors # <<>>

\* C12: when a file with validate = true yields at least one ValidationError,
\* the store is left as it was before the file (nothing learned, no
\* relationship map, no service specification), the file is counted as one
\* error and not as a success, and the loop goes on with the next file.
C12_RejectedLeavesStore ==
    [][/\ pc \in {"file", "validate"} => store' = store
       /\ pc = "validate" /\ validationErrors' # <<>> =>
             /\ config.validate
             /\ errorCount' = errorCount + 1
             /\ successCount' = successCount
             /\ outputs' = outputs
             /\ pc' = "file"
             /\ idx' = idx
       /\ Rejected /\ idx < Len(filePaths) => idx' = idx + 1]_vars

\* the tasks file names an enhancement order the task products do not have:
\* nothing of it is in the store, and the services file after it is processed
C12_Witness ==
    /\ pc = "done"
    /\ Len(filePaths) = 3
    /\ filePaths[1].name = "blueprint_task_products"
    /\ filePaths[2].name = "blueprint_tasks"
    /\ filePaths[2].kind = "data"
    /\ filePaths[3].name = "blueprint_services"
    /\ errorCount = 1
    /\ successCount = 2
    /\ ~HasKey(store.doc, "task")
    /\ ~HasKey(store.doc, "responsibility_options")
    /\ ~HasKey(store.doc, "task_responsibilities")
    /\ HasKey(store.doc, "Service")

\* the fields some file learns
learnableFields ==
    {"taskProduct", "enhancement-order", "enhancement", "responsibility_options", "task",
     "Service"}

\* the option set the store holds for field f
OptionSet(f) == IF HasKey(ReadOptions(store), f) THEN Range(Get(ReadOptions(store), f).a) ELSE {}

\* file j learns field f
Learns(j, f) == f \in Range(LEARNING_CONFIG(filePaths[j].name).learnFields)

\* the values of f in the files before file i that learn f and were accepted
EarlierValues(f, i) ==
    UNION {Range(extractUniqueValues(BatchOf(filePaths[j]), f)) :
              j \in {k \in accepted : k < i /\ Learns(k, f)}}

\* C13: when the i-th file of a run is validated, the store holds for each
\* field exactly the values of that field in the earlier files of the run
\* that learn the field and were accepted: nothing of file i, of a later
\* file, of a rejected file or of an earlier run.
C13_StoreOfEarlierFiles ==
    pc = "validate" =>
        /\ \A f \in learnableFields : OptionSet(f) = EarlierValues(f, idx)
        /\ \A i \in DOMAIN LearnedEntries : LearnedEntries[i].k \in learnableFields
        /\ \A k \in accepted : k < idx

\* the services file is validated after accepted task products and a
\* rejected tasks file that has a task name of its own
C13_Witness ==
    /\ pc = "validate"
    /\ idx = 3
    /\ accepted = {1}
    /\ filePaths[2].name = "blueprint_tasks"
    /\ filePaths[2].kind = "data"
    /\ filePaths[3].name = "blueprint_services"
    /\ OptionSet("taskProduct") # {}
    /\ OptionSet("task") = {}
    /\ OptionSet("Service") = {}

relationshipKeys ==
    {"task_responsibilities", "taskProduct_producers", "taskProduct_enhancements"}

\* the command line names the tasks file before every task products file
TasksFirst ==
    \E t \in DOMAIN filePaths :
        /\ filePaths[t].name = "blueprint_tasks"
        /\ \E j \in DOMAIN filePaths : filePaths[j].name = "blueprint_task_products"
        /\ \A j \in DOMAIN filePaths :
              filePaths[j].name = "blueprint_task_products" => t < j

\* C14: when the tasks file is processed before the task products file, the
\* store holds no relationship map in any state of the run, neither an empty
\* nor a partial one, and none is written when the task products file is
\* processed afterwards.
C14_NoMapsWhenTasksFirst ==
    Running /\ TasksFirst => \A k \in relationshipKeys : ~HasKey(ReadOptions(store), k)

\* tasks, then task products, both accepted and learned, both batches in
\* memory at the end of the run
C14_Witness ==
    /\ pc = "done"
    /\ TasksFirst
    /\ tasksData # <<>>
    /\ taskProductsData # <<>>
    /\ OptionSet("task") # {}
    /\ OptionSet("taskProduct") # {}
    /\ successCount = Len(filePaths)

\* the rows of Scenario C
ScenarioProduct == <<Prop("taskProduct", Hdr), Prop("enhancement-order", Arr(<<Blur>>))>>

ScenarioTask == <<Prop("task", Blurring), Prop("outputs", Arr(<<Hdr>>))>>

\* file i is a task products file that has the row of the scenario, file j a
\* later tasks file that has the row of the scenario
ScenarioC(i, j) ==
    /\ i < j
    /\ filePaths[i].name = "blueprint_task_products"
    /\ filePaths[i].kind = "data"
    /\ ScenarioProduct \in Range(BatchOf(filePaths[i]))
    /\ filePaths[j].name = "blueprint_tasks"
    /\ filePaths[j].kind = "data"
    /\ ScenarioTask \in Range(BatchOf(filePaths[j]))

\* the store m[key] of relationship map m, [] if there is none
MapEntry(m, key) ==
    IF HasKey(ReadOptions(store), m) /\ HasKey(Get(ReadOptions(store), m).o, key)
    THEN Get(Get(ReadOptions(store), m).o, key).a
    ELSE <<>>

ScenarioCMaps ==
    /\ Blurring \in Range(MapEntry("taskProduct_producers", Hdr.s))
    /\ Blur \in Range(MapEntry("taskProduct_enhancements", Hdr.s))

LastForProduct(batch, r) ==
    \E n \in DOMAIN batch :
        /\ batch[n] = r
        /\ \A k \in DOMAIN batch :
              k > n => StringOf(Field(batch[k], "taskProduct")) # StringOf(Field(r, "taskProduct"))

-----------------------------------------------------------------------------
(* Suggestions: levenshteinDistance and findClosestMatches *)

upperCase ==
    <<"A", "B", "C", "D", "E", "F", "G", "H", "I", "J", "K", "L", "M",
      "N", "O", "P", "Q", "R", "S", "T", "U", "V", "W", "X", "Y", "Z">>

lowerCase ==
    <<"a", "b", "c", "d", "e", "f", "g", "h", "i", "j", "k", "l", "m",
      "n", "o", "p", "q", "r", "s", "t", "u", "v", "w", "x", "y", "z">>

\* String.prototype.toLowerCase
toLowerCase(str) ==
    [i \in DOMAIN str |->
        IF \E n \in DOMAIN upperCase : upperCase[n] = str[i]
        THEN lowerCase[CHOOSE n \in DOMAIN upperCase : upperCase[n] = str[i]]
        ELSE str[i]]

\* Math.min
MathMin(S) == Min(S)

\* a changed character costs as much as a character put in and one taken out
MatrixEntry_NoSubstitution(same, diagonal, left, above) ==
    IF same THEN diagonal ELSE Min({left + 1, above + 1})

\* equal characters cost an edit as well
MatrixEntry_AlwaysEdit(same, diagonal, left, above) ==
    MathMin({diagonal + 1, left + 1, above + 1})

\* matrix[i][j] from matrix[i-1][j-1], matrix[i][j-1] and matrix[i-1][j]
MatrixEntry(same, diagonal, left, above) ==
    IF same THEN diagonal ELSE MathMin({diagonal + 1, left + 1, above + 1})

RECURSIVE MatrixRow(_, _, _, _, _)
\* matrix[i][0..j], given above = matrix[i-1]; entry n of a row is column n-1
MatrixRow(above, c, str2, i, j) ==
    IF j = 0 THEN <<i>>
    ELSE LET left == MatrixRow(above, c, str2, i, j - 1)
         IN  Append(left, MatrixEntry(c = str2[j], above[j], left[j], above[j + 1]))

RECURSIVE Matrix(_, _, _)
\* matrix[0..i]: row n + 1 of it holds the distances of str1[0..n-1] to the
\* prefixes of str2
Matrix(str1, str2, i) ==
    IF i = 0 THEN <<[n \in 1..(Len(str2) + 1) |-> n - 1]>>
    ELSE LET matrix == Matrix(str1, str2, i - 1)
         IN  Append(matrix, MatrixRow(matrix[i], str1[i], str2, i, Len(str2)))

levenshteinDistance(str1, str2) ==
    Matrix(str1, str2, Len(str1))[Len(str1) + 1][Len(str2) + 1]

\* the distance beyond which an option is no suggestion
maxDistance == 3

\* the default of maxSuggestions
maxSuggestions == 3

RECURSIVE InsertByDistance(_, _)
\* d put behind the entries that are not farther than it
InsertByDistance(d, sorted) ==
    IF sorted = <<>> THEN <<d>>
    ELSE IF d.distance < sorted[1].distance THEN <<d>> \o sorted
    ELSE <<sorted[1]>> \o InsertByDistance(d, Tail(sorted))

RECURSIVE SortByDistance(_)
\* distances.sort((a, b) => a.distance - b.distance): the sort is stable
SortByDistance(distances) ==
    IF distances = <<>> THEN <<>>
    ELSE InsertByDistance(distances[Len(distances)],
                          SortByDistance(SubSeq(distances, 1, Len(distances) - 1)))

\* the options are offered in the order in which they are listed
findClosestMatches_Unsorted(value, options, k) ==
    LET valueLower == toLowerCase(value.s)
        close == SelectSeq(options, LAMBDA o :
                     levenshteinDistance(valueLower, toLowerCase(o.s)) <= maxDistance)
    IN  SubSeq(close, 1, Min({k, Len(close)}))

\* every option is offered, however far it is
findClosestMatches_NoThreshold(value, options, k) ==
    LET valueLower == toLowerCase(value.s)
        distances  == [i \in DOMAIN options |->
                          [option |-> options[i],
                           distance |-> levenshteinDistance(valueLower,
                                                            toLowerCase(options[i].s))]]
        sorted     == SortByDistance(distances)
    IN  [i \in 1..Min({k, Len(sorted)}) |-> sorted[i].option]

findClosestMatches(value, options, k) ==
    LET valueLower == toLowerCase(value.s)
        distances  == [i \in DOMAIN options |->
                          [option |-> options[i],
                           distance |-> levenshteinDistance(valueLower,
                                                            toLowerCase(options[i].s))]]
        close      == SelectSeq(SortByDistance(distances),
                                LAMBDA d : d.distance <= maxDistance)
    IN  [i \in 1..Min({k, Len(close)}) |-> close[i].option]

-----------------------------------------------------------------------------
(* Validation calls: validateData on a batch and an options object, then     *)
(* the suggestions reportValidationErrors prints for the errors              *)

\* the most rows of a batch handed to validateData
MaxRows == 2

Staging == Str(<<"S", "t", "a", "g", "i", "n", "g">>)

StagingPadded == Str(<<" ", "S", "t", "a", "g", "i", "n", "g", " ">>)

Blurign == Str(<<"B", "l", "u", "r", "i", "g", "n">>)

Typo == Str(<<"H", "d", "x">>)

Blank == Str(<<" ", " ">>)

\* the options objects: empty; Scenario B; task products; enhancement orders
\* under the alias, under both names, under an empty list; several fields
OptionObjects ==
    {<<>>,
     <<Prop("task", Arr(<<Blurring, Staging>>))>>,
     <<Prop("taskProduct", Arr(<<Hdr, Pano>>))>>,
     <<Prop("enhancement_order", Arr(<<Blur>>))>>,
     <<Prop("enhancement-order", Arr(<<Sharp>>)), Prop("enhancement_order", Arr(<<Blur>>))>>,
     <<Prop("enhancement-order", Arr(<<>>)), Prop("enhancement_order", Arr(<<Blur>>))>>,
     <<Prop("task", Arr(<<Blurring, Staging>>)), Prop("inputs", Arr(<<Hdr>>)),
       Prop("task_responsibilities", Obj(<<Prop(Blurring.s, Arr(<<Ed>>))>>))>>}

ValidatedRows ==
    {<<>>,
     <<Prop("task", Blurign)>>,
     <<Prop("task", Blurring)>>,
     <<Prop("task", StagingPadded)>>,
     <<Prop("task", EmptyStr)>>,
     <<Prop("task", Blank)>>,
     <<Prop("task", Null)>>,
     <<Prop("task", n1), Prop("Service", Video)>>,
     <<Prop("inputs", Arr(<<Hdr, Typo>>)), Prop("outputs", Arr(<<Typo>>))>>,
     <<Prop("inputs", Arr(<<Pano, EmptyStr, Typo, Typo>>))>>,
     <<Prop("enhancement-order", Arr(<<Blur, Sharp>>))>>,
     <<Prop("enhancement-order", Blur)>>,
     <<Prop("taskProduct", Typo), Prop("task", Blurign), Prop("inputs", Arr(<<Blank, Null>>))>>}

ValidatedBatches == UNION {[1..n -> ValidatedRows] : n \in 1..MaxRows}

InitValidate ==
    /\ \E rows \in ValidatedBatches, fieldOptions \in OptionObjects :
          call = [fn |-> "validateData", rows |-> rows, fieldOptions |-> fieldOptions]
    /\ result = [stage |-> "none"]
    /\ NoPipeline
    /\ store = NoFile
    /\ callLog = <<>>
    /\ trace = <<>>
    /\ sheet = NoSheet

\* validateData(rows, fieldOptions)
CallValidate ==
    /\ call.fn = "validateData"
    /\ result.stage = "none"
    /\ result' = [stage |-> "validated",
                  errors |-> validateData(call.rows, call.fieldOptions)]
    /\ UNCHANGED <<call, codecVars, storeVars, pipeVars>>

\* reportValidationErrors: findClosestMatches(error.value, error.validOptions, 3)
CallReport ==
    /\ result.stage = "validated"
    /\ result.errors # <<>>
    /\ result' = [stage |-> "reported",
                  errors |-> result.errors,
                  suggestions |->
                      [i \in DOMAIN result.errors |->
                          findClosestMatches(result.errors[i].value,
                                             result.errors[i].validOptions, maxSuggestions)]]
    /\ UNCHANGED <<call, codecVars, storeVars, pipeVars>>

NextValidate == CallValidate \/ CallReport

SpecValidate == InitValidate /\ [][NextValidate]_vars

-----------------------------------------------------------------------------
(* Suggestion calls: findClosestMatches on a value, an option list and,      *)
(* when it is given, the number of suggestions wanted                        *)

\* the most options of a list handed to findClosestMatches
MaxOptions == 4

\* the largest maxSuggestions handed to findClosestMatches
MaxK == 4

Wab == Str(<<"a", "b">>)

WAb == Str(<<"A", "b">>)

Wabc == Str(<<"a", "b", "c">>)

Wac == Str(<<"a", "c">>)

Wabcde == Str(<<"a", "b", "c", "d", "e">>)

Wwxyz == Str(<<"w", "x", "y", "z">>)

\* the words of the calls: equal but for the case, one character more, one
\* changed, three edits apart, and more than three edits from the others
Words == {Wab, WAb, Wabc, Wac, Wabcde, Wwxyz}

\* the option lists: the lists of the store, which hold no value twice
OptionLists ==
    {options \in UNION {[1..n -> Words] : n \in 0..MaxOptions} :
        \A i, j \in DOMAIN options : i # j => options[i] # options[j]}

\* maxSuggestions is given (given = TRUE) or left to its default
SuggestionCounts ==
    {[given |-> FALSE, k |-> 0]} \cup {[given |-> TRUE, k |-> k] : k \in 0..MaxK}

InitSuggest ==
    /\ \E value \in Words, options \in OptionLists, count \in SuggestionCounts :
          call = [fn |-> "findClosestMatches", value |-> value, options |-> options,
                  given |-> count.given, k |-> count.k]
    /\ result = [stage |-> "none"]
    /\ NoPipeline
    /\ store = NoFile
    /\ callLog = <<>>
    /\ trace = <<>>
    /\ sheet = NoSheet

\* findClosestMatches(value, options) or findClosestMatches(value, options, k)
CallSuggest ==
    /\ call.fn = "findClosestMatches"
    /\ result.stage = "none"
    /\ result' = [stage |-> "suggested",
                  suggestions |->
                      findClosestMatches(call.value, call.options,
                                         IF call.given THEN call.k ELSE maxSuggestions)]
    /\ UNCHANGED <<call, codecVars, storeVars, pipeVars>>

NextSuggest == CallSuggest

SpecSuggest == InitSuggest /\ [][NextSuggest]_vars

-----------------------------------------------------------------------------
(* Validator calls on service rows: both passes, against the store of a run  *)
(* with the raw task batch attached                                          *)

BlurHdr == Str(Blur.s \o <<":", " ">> \o Hdr.s)

SharpHdr == Str(Sharp.s \o <<":">> \o Hdr.s)

BlurPano == Str(<<" ">> \o Blur.s \o <<" ", ":">> \o Pano.s)

BlendQa == Str(Blend.s \o <<":">> \o Qa.s)

HdrBlurring == Str(Hdr.s \o <<":">> \o Blurring.s)

HdrStage == Str(Hdr.s \o <<":">> \o Stage.s)

TwoColons == Str(Blur.s \o <<":">> \o Hdr.s \o <<":">> \o Hdr.s)

\* service rows: Scenario D; other enhancement pairs; values without a colon
\* and with two; the other two compound fields; a simple field as well
ServiceRows ==
    {<<Prop("Service", Photo), Prop(enhancementSpecification, BlurHdr)>>,
     <<Prop(enhancementSpecification, SharpHdr)>>,
     <<Prop(enhancementSpecification, BlurPano)>>,
     <<Prop(enhancementSpecification, Blur)>>,
     <<Prop(enhancementSpecification, TwoColons)>>,
     <<Prop(responsibilitySpecification, BlendEd)>>,
     <<Prop(responsibilitySpecification, BlendQa),
       Prop(transformationSpecification, HdrStage)>>,
     <<Prop(transformationSpecification, HdrBlurring)>>,
     <<Prop("task", Blurign), Prop(enhancementSpecification, BlurHdr)>>,
     <<Prop("Service", Video), Prop("task", Blend)>>,
     <<Prop(enhancementSpecification, SharpHdr), Prop("taskProduct", Typo),
       Prop("task", Blurign), Prop("enhancement", Arr(<<Typo, Blur, Blurign>>))>>}

ServiceBatches == UNION {[1..n -> ServiceRows] : n \in 1..MaxRows}

\* the learned lists of a run
LearnedLists ==
    <<Prop("enhancement", Arr(<<Blur, Sharp>>)), Prop("task", Arr(<<Blurring, Stage, Blend>>)),
      Prop("taskProduct", Arr(<<Hdr, Pano>>))>>

\* the relationship maps of a run
LearnedMaps ==
    <<Prop("task_responsibilities", Obj(<<Prop(Blend.s, Arr(<<Ed>>))>>)),
      Prop("taskProduct_producers", Obj(<<Prop(Hdr.s, Arr(<<Blurring>>))>>)),
      Prop("taskProduct_enhancements", Obj(<<Prop(Hdr.s, Arr(<<Blur>>))>>))>>

\* a task that blurs Hdr-images into Hdr-images
BlendTask ==
    <<Prop("task", Blend), Prop("enhancement", Blur), Prop("inputs", Arr(<<Pano, Hdr>>)),
      Prop("outputs", Arr(<<Hdr>>))>>

\* a task that blurs Hdr-images into something else
BlurringTask ==
    <<Prop("task", Blurring), Prop("enhancement", Blur), Prop("inputs", Arr(<<Hdr>>)),
      Prop("outputs", Arr(<<Pano>>))>>

\* a task that sharpens Hdr-images into Hdr-images
StageTask ==
    <<Prop("task", Stage), Prop("enhancement", Sharp), Prop("inputs", Arr(<<Hdr>>)),
      Prop("outputs", Arr(<<Hdr>>))>>

\* the raw task batches; the empty one is not attached
TaskBatches ==
    {<<>>, <<BlendTask>>, <<BlurringTask>>, <<StageTask>>, <<BlurringTask, BlendTask>>}

\* fieldOptions['_tasksData'] = tasksData
WithTasks(fieldOptions, tasks) ==
    IF tasks # <<>>
    THEN Put(fieldOptions, "_tasksData", Arr([i \in DOMAIN tasks |-> Obj(tasks[i])]))
    ELSE fieldOptions

ServiceOptions ==
    {WithTasks(fieldOptions, tasks) :
        fieldOptions \in {<<>>, LearnedLists, LearnedLists \o LearnedMaps},
        tasks \in TaskBatches}

InitServices ==
    /\ \E rows \in ServiceBatches, fieldOptions \in ServiceOptions :
          call = [fn |-> "validate", rows |-> rows, fieldOptions |-> fieldOptions]
    /\ result = [stage |-> "none"]
    /\ NoPipeline
    /\ store = NoFile
    /\ callLog = <<>>
    /\ trace = <<>>
    /\ sheet = NoSheet

\* the validator on a batch of service rows
CallValidator ==
    /\ call.fn = "validate"
    /\ result.stage = "none"
    /\ result' = [stage |-> "validated", errors |-> validate(call.rows, call.fieldOptions)]
    /\ UNCHANGED <<call, codecVars, storeVars, pipeVars>>

NextServices == CallValidator

SpecServices == InitServices /\ [][NextServices]_vars

-----------------------------------------------------------------------------
(* Loads: loadFieldOptions with available_options.json and                   *)
(* extras/field_options.json as they may be found on disk                    *)

\* a file that is there and is no JSON
BrokenFile == [exists |-> TRUE, valid |-> FALSE, doc |-> <<>>]

\* a file on disk: missing, broken, or a document
FilesOnDisk == {NoFile, BrokenFile} \cup {FileOf(doc) : doc \in OptionObjects}

InitLoad ==
    /\ store \in FilesOnDisk
    /\ \E f \in FilesOnDisk : call = [fn |-> "loadFieldOptions", fieldOptionsFile |-> f]
    /\ result = [stage |-> "none"]
    /\ NoPipeline
    /\ callLog = <<>>
    /\ trace = <<>>
    /\ sheet = NoSheet

\* loadFieldOptions(): both reads are inside try/catch, nothing is thrown
CallLoad ==
    /\ call.fn = "loadFieldOptions"
    /\ result.stage = "none"
    /\ result' = [stage |-> "loaded",
                  options |-> loadFieldOptions(store, call.fieldOptionsFile)]
    /\ UNCHANGED <<call, codecVars, storeVars, pipeVars>>

NextLoad == CallLoad

SpecLoad == InitLoad /\ [][NextLoad]_vars

-----------------------------------------------------------------------------
(* Pipeline runs in which a write of available_options.json may fail         *)

\* the most writes of the store that fail in a run
MaxFaults == 1

InitFaulty ==
    /\ mode \in {"json", "table"}
    /\ filePaths \in FileLists(mode)
    /\ store \in PriorStores
    /\ idx = 0
    /\ pc = "init"
    /\ dataArray = <<>>
    /\ fieldIdx = 0
    /\ validationErrors = <<>>
    /\ successCount = 0
    /\ errorCount = 0
    /\ taskProductsData = <<>>
    /\ tasksData = <<>>
    /\ servicesData = <<>>
    /\ outputs = <<>>
    /\ accepted = {}
    /\ call = [fn |-> "faults", left |-> MaxFaults]
    /\ result = [stage |-> "none"]
    /\ callLog = <<>>
    /\ trace = <<>>
    /\ sheet = NoSheet

\* the statement the run is at writes the store
WritesStore ==
    \/ /\ pc = "learn"
       /\ fieldIdx <= Len(config.learnFields)
       /\ extractUniqueValues(dataArray, config.learnFields[fieldIdx]) # <<>>
    \/ /\ pc = "relate"
       /\ file.name = "blueprint_tasks" /\ taskProductsData # <<>> /\ tasksData # <<>>
       /\ ~BuildThrows(taskProductsData, tasksData)
    \/ /\ pc = "specs"
       /\ file.name = "blueprint_services" /\ servicesData # <<>>

\* fs.writeFileSync throws in initializeAvailableOptions: the catch around
\* the run, process.exit(1)
InitializeFails ==
    /\ pc = "init"
    /\ call.fn = "faults" /\ call.left > 0
    /\ call' = [call EXCEPT !.left = @ - 1]
    /\ pc' = "aborted"
    /\ UNCHANGED <<result, codecVars, storeVars, mode, filePaths, accepted, idx, dataArray,
                   fieldIdx, validationErrors, countVars, dataVars, outputs>>

\* fs.writeFileSync throws inside the try of a file: the catch of the file
\* counts an error and the loop goes on; the file on disk is as it was or is
\* left unparseable
WriteFails ==
    /\ WritesStore
    /\ call.fn = "faults" /\ call.left > 0
    /\ call' = [call EXCEPT !.left = @ - 1]
    /\ store' \in {store, BrokenFile}
    /\ errorCount' = errorCount + 1
    /\ pc' = "file"
    /\ UNCHANGED <<result, codecVars, callLog, mode, filePaths, accepted, idx, dataArray,
                   fieldIdx, validationErrors, successCount, dataVars, outputs>>

NextFaulty == NextPipeline \/ InitializeFails \/ WriteFails

SpecFaulty == InitFaulty /\ [][NextFaulty]_vars

-----------------------------------------------------------------------------
(* Calls of buildTaskProductProducers on a tasks batch                       *)

\* the most rows of a tasks batch handed to buildTaskProductProducers
MaxTasks == 3

\* task rows: two products; one; a product twice; outputs as one string; no
\* task name; empty and blank outputs; a number as output; no outputs; a
\* padded product
ProducerRows ==
    {<<Prop("task", Stage), Prop("outputs", Arr(<<Hdr, Pano>>))>>,
     <<Prop("task", Blend), Prop("outputs", Arr(<<Hdr>>))>>,
     <<Prop("task", Stage), Prop("outputs", Arr(<<Pano, Hdr, Hdr>>))>>,
     <<Prop("task", Blend), Prop("outputs", Pano)>>,
     <<Prop("task", EmptyStr), Prop("outputs", Arr(<<Hdr>>))>>,
     <<Prop("task", Blurring), Prop("outputs", Arr(<<EmptyStr, Blank, Hdr>>))>>,
     <<Prop("task", Blend), Prop("outputs", Arr(<<n1>>))>>,
     <<Prop("task", Blurring)>>,
     <<Prop("task", Blurring), Prop("outputs", Arr(<<PanoPadded>>))>>}

ProducerBatches == UNION {[1..n -> ProducerRows] : n \in 0..MaxTasks}

\* output.trim() is called on an output that has no trim
ProducersThrow(rows) ==
    \E i \in DOMAIN rows :
        /\ Truthy(Field(rows[i], "task"))
        /\ Truthy(Field(rows[i], "outputs"))
        /\ TrimThrows(AsArray(Field(rows[i], "outputs")))

InitProducers ==
    /\ \E rows \in ProducerBatches : call = [fn |-> "buildTaskProductProducers", rows |-> rows]
    /\ result = [stage |-> "none"]
    /\ NoPipeline
    /\ store = NoFile
    /\ callLog = <<>>
    /\ trace = <<>>
    /\ sheet = NoSheet

\* buildTaskProductProducers(tasksData): the map, or a TypeError
CallProducers ==
    /\ call.fn = "buildTaskProductProducers"
    /\ result.stage = "none"
    /\ result' = IF ProducersThrow(call.rows)
                 THEN [stage |-> "built", threw |-> TRUE, producers |-> <<>>]
                 ELSE [stage |-> "built", threw |-> FALSE,
                       producers |-> buildTaskProductProducers(call.rows)]
    /\ UNCHANGED <<call, codecVars, storeVars, pipeVars>>

NextProducers == CallProducers

SpecProducers == InitProducers /\ [][NextProducers]_vars

-----------------------------------------------------------------------------
(* Calls of buildTaskResponsibilities and buildTaskProductEnhancements       *)

\* task rows of one task: two options; one; none; empty and blank options;
\* one option as a string; a number as option; an empty list; another task
ResponsibilityRows ==
    {<<Prop("task", Stage), Prop("responsibility_options", Arr(<<Qa, Ed>>))>>,
     <<Prop("task", Stage), Prop("responsibility_options", Arr(<<Ed>>))>>,
     <<Prop("task", Stage)>>,
     <<Prop("task", Stage), Prop("responsibility_options", Arr(<<EmptyStr, Qa, Blank>>))>>,
     <<Prop("task", Stage), Prop("responsibility_options", Qa)>>,
     <<Prop("task", Stage), Prop("responsibility_options", Arr(<<n1>>))>>,
     <<Prop("task", Stage), Prop("responsibility_options", Arr(<<>>))>>,
     <<Prop("task", Blend), Prop("responsibility_options", Arr(<<Ed>>))>>}

\* task-product rows: two enhancements; one; no order; an empty element; the
\* order as a string; another product; no product
EnhancementRows ==
    {<<Prop("taskProduct", Hdr), Prop("enhancement-order", Arr(<<Blur, Sharp>>))>>,
     <<Prop("taskProduct", Hdr), Prop("enhancement-order", Arr(<<Sharp>>))>>,
     <<Prop("taskProduct", Hdr)>>,
     <<Prop("taskProduct", Hdr), Prop("enhancement-order", Arr(<<Blur, EmptyStr>>))>>,
     <<Prop("taskProduct", Hdr), Prop("enhancement-order", Blur)>>,
     <<Prop("taskProduct", Pano), Prop("enhancement-order", Arr(<<Blur>>))>>,
     <<Prop("enhancement-order", Arr(<<Blur>>))>>}

InitBuilders ==
    /\ \/ \E rows \in UNION {[1..n -> ResponsibilityRows] : n \in 0..MaxTasks} :
             call = [fn |-> "buildTaskResponsibilities", rows |-> rows]
       \/ \E rows \in UNION {[1..n -> EnhancementRows] : n \in 0..MaxTasks} :
             call = [fn |-> "buildTaskProductEnhancements", rows |-> rows]
    /\ result = [stage |-> "none"]
    /\ NoPipeline
    /\ store = NoFile
    /\ callLog = <<>>
    /\ trace = <<>>
    /\ sheet = NoSheet

\* buildTaskResponsibilities(tasksData): the map, or a TypeError
CallResponsibilities ==
    /\ call.fn = "buildTaskResponsibilities"
    /\ result.stage = "none"
    /\ result' = IF BuildThrows(<<>>, [i \in DOMAIN call.rows |->
                                       SelectSeq(call.rows[i], LAMBDA p : p.k # "outputs")])
                 THEN [stage |-> "built", threw |-> TRUE, map |-> <<>>]
                 ELSE [stage |-> "built", threw |-> FALSE,
                       map |-> buildTaskResponsibilities(call.rows)]
    /\ UNCHANGED <<call, codecVars, storeVars, pipeVars>>

\* buildTaskProductEnhancements(taskProductsData): the map, or a TypeError
CallEnhancements ==
    /\ call.fn = "buildTaskProductEnhancements"
    /\ result.stage = "none"
    /\ result' = IF BuildThrows(call.rows, <<>>)
                 THEN [stage |-> "built", threw |-> TRUE, map |-> <<>>]
                 ELSE [stage |-> "built", threw |-> FALSE,
                       map |-> buildTaskProductEnhancements(call.rows)]
    /\ UNCHANGED <<call, codecVars, storeVars, pipeVars>>

SpecBuilders == InitBuilders /\ [][CallResponsibilities \/ CallEnhancements]_vars

-----------------------------------------------------------------------------
(* A field learned from a batch, and the batch validated against the store   *)
(* that results                                                              *)

\* available_options.json before the learning
StoresBefore ==
    {NoFile, BrokenFile, FileOf(<<>>),
     FileOf(<<Prop("task", Arr(<<Blurring, Staging>>)), Prop("inputs", Arr(<<Hdr>>))>>),
     FileOf(<<Prop("enhancement_order", Arr(<<Blur>>))>>)}

InitLearned ==
    /\ \E rows \in ValidatedBatches, n \in DOMAIN fieldsToValidate :
          call = [fn |-> "learn", rows |-> rows, fieldName |-> fieldsToValidate[n]]
    /\ result = [stage |-> "none"]
    /\ NoPipeline
    /\ store \in StoresBefore
    /\ callLog = <<>>
    /\ trace = <<>>
    /\ sheet = NoSheet

\* the values of the field are extracted from the batch and learned
CallLearn ==
    /\ call.fn = "learn"
    /\ result.stage = "none"
    /\ LET values == extractUniqueValues(call.rows, call.fieldName)
       IN  /\ store' = IF values # <<>>
                       THEN updateAvailableOptions(store, call.fieldName, values)
                       ELSE store
           /\ result' = [stage |-> "learned", values |-> values]
    /\ UNCHANGED <<call, codecVars, callLog, pipeVars>>

\* the batch is validated against the options loaded from the store
CallValidateLearned ==
    /\ call.fn = "learn"
    /\ result.stage = "learned"
    /\ result' = [stage |-> "validated", values |-> result.values,
                  errors |-> validateData(call.rows, loadFieldOptions(store, fieldOptionsFile))]
    /\ UNCHANGED <<call, codecVars, storeVars, pipeVars>>

SpecLearned == InitLearned /\ [][CallLearn \/ CallValidateLearned]_vars

-----------------------------------------------------------------------------
(* Properties of validateData and of the suggestions                         *)

Validated == call.fn = "validateData" /\ result.stage \in {"validated", "reported"}

\* the elements of row[field], each as a trimmed string; a field that is
\* absent, null or '' has none
Elements(row, field) ==
    LET values == AsArray(Field(row, field))
    IN  IF HasValue(Field(row, field))
        THEN [i \in DOMAIN values |-> Str(trim(StringOf(values[i])))]
        ELSE <<>>

\* the list the document gives for the field, under its name or its alias
OptionList(fieldOptions, field) ==
    LET allowedOptions == AllowedOptions(fieldOptions, field)
    IN  IF allowedOptions.t = "arr" THEN allowedOptions.a ELSE <<>>

HasOptionList(fieldOptions, field) == AllowedOptions(fieldOptions, field).t = "arr"

\* the errors of the i-th row (from 1) for the field, in the order of the list
ErrorsAt(errors, i, field) == SelectSeq(errors, LAMBDA e : e.row = i + 1 /\ e.field = field)

ValuesOf(errors) == [n \in DOMAIN errors |-> errors[n].value]

\* C16 as stated: for a field with an option list, the errors of a row are
\* exactly its trimmed elements that are not in the list, one error for each
C16_AsStated ==
    Validated =>
        \A i \in DOMAIN call.rows, n \in DOMAIN fieldsToValidate :
            LET field   == fieldsToValidate[n]
                options == OptionList(call.fieldOptions, field)
            IN  HasOptionList(call.fieldOptions, field) =>
                    ValuesOf(ErrorsAt(result.errors, i, field))
                        = SelectSeq(Elements(call.rows[i], field),
                                    LAMBDA v : v \notin Range(options))

\* C16: for a field whose option list (the one under the literal name if the
\* document has one, else the one under the alias) is not empty, the errors
\* of a row are exactly its trimmed elements that are not empty and not in
\* the list, one error for each in the order of the elements, and each error
\* carries the field, the trimmed value and the whole option list
C16_SimpleFields ==
    Validated =>
        \A i \in DOMAIN call.rows, n \in DOMAIN fieldsToValidate :
            LET field   == fieldsToValidate[n]
                options == OptionList(call.fieldOptions, field)
                errors  == ErrorsAt(result.errors, i, field)
            IN  options # <<>> =>
                    /\ ValuesOf(errors)
                          = SelectSeq(Elements(call.rows[i], field),
                                      LAMBDA v : v.s # <<>> /\ v \notin Range(options))
                    /\ \A k \in DOMAIN errors : errors[k].validOptions = options

\* a row with four inputs, one of them empty and three no options: three errors
C16_Witness ==
    /\ Validated
    /\ \E i \in DOMAIN call.rows :
          /\ Elements(call.rows[i], "inputs") = <<Pano, EmptyStr, Typo, Typo>>
          /\ ValuesOf(ErrorsAt(result.errors, i, "inputs")) = <<Pano, Typo, Typo>>

\* the document has nothing for the field, under its name or under its alias
NotLearned(fieldOptions, field) ==
    /\ Field(fieldOptions, field) = Undefined
    /\ Field(fieldOptions, FieldKey(field)) = Undefined

\* C17: a field for which the store holds no option list is not validated:
\* no error names it, whatever the rows hold, and a batch validated against
\* the empty store has no errors
C17_NotLearnedNotValidated ==
    Validated =>
        /\ \A n \in DOMAIN result.errors :
              ~NotLearned(call.fieldOptions, result.errors[n].field)
        /\ call.fieldOptions = <<>> => result.errors = <<>>

\* only task products are learned: the row's unknown product is an error,
\* its unknown task and its inputs are not
C17_Witness ==
    /\ Validated
    /\ NotLearned(call.fieldOptions, "task")
    /\ NotLearned(call.fieldOptions, "inputs")
    /\ \E i \in DOMAIN call.rows :
          /\ Field(call.rows[i], "task") = Blurign
          /\ Field(call.rows[i], "inputs") = Arr(<<Blank, Null>>)
          /\ ValuesOf(ErrorsAt(result.errors, i, "taskProduct")) = <<Typo>>
          /\ ErrorsAt(result.errors, i, "task") = <<>>

\* the task products of the document, as learned from a task products file
LearnedTaskProducts(fieldOptions) == OptionList(fieldOptions, "taskProduct")

\* C18: once task products are learned, an element of a row's inputs or
\* outputs that is not one of them is reported as an error of that field
C18_AgainstTaskProducts ==
    Validated =>
        \A i \in DOMAIN call.rows, field \in {"inputs", "outputs"} :
            LET elements == Elements(call.rows[i], field)
            IN  \A n \in DOMAIN elements :
                    ( /\ LearnedTaskProducts(call.fieldOptions) # <<>>
                      /\ elements[n].s # <<>>
                      /\ elements[n] \notin Range(LearnedTaskProducts(call.fieldOptions)) )
                    => elements[n] \in Range(ValuesOf(ErrorsAt(result.errors, i, field)))

\* Scenario B: the store holds the tasks Blurring and Staging, the batch is
\* one row with the task Blurign
ScenarioB ==
    /\ call.fn = "validateData"
    /\ call.rows = <<<<Prop("task", Blurign)>>>>
    /\ call.fieldOptions = <<Prop("task", Arr(<<Blurring, Staging>>))>>

\* the distance findClosestMatches computes between a value and an option
DistanceTo(value, option) == levenshteinDistance(toLowerCase(value.s), toLowerCase(option.s))

\* C19 as stated: one error, its first suggestion is Blurring, at distance 2
C19_AsStated ==
    (ScenarioB /\ result.stage = "reported") =>
        /\ Len(result.errors) = 1
        /\ result.suggestions[1] # <<>>
        /\ result.suggestions[1][1] = Blurring
        /\ DistanceTo(result.errors[1].value, result.suggestions[1][1]) = 2

\* C19: in Scenario B validateData gives exactly one error, for the value
\* Blurign, and the first suggestion reported for it is Blurring, which is
\* at edit distance 3 from it
C19_ScenarioB ==
    /\ (ScenarioB /\ Validated) =>
          /\ Len(result.errors) = 1
          /\ result.errors[1].value = Blurign
    /\ (ScenarioB /\ result.stage = "reported") =>
          /\ result.suggestions[1] # <<>>
          /\ result.suggestions[1][1] = Blurring
          /\ DistanceTo(result.errors[1].value, result.suggestions[1][1]) = 3

\* the error of Scenario B has been reported with its suggestions
C19_Witness == ScenarioB /\ result.stage = "reported" /\ Len(result.suggestions) = 1

RECURSIVE EditDistance(_, _)
\* the least number of characters put in, taken out or changed to make b of a
EditDistance(a, b) ==
    IF a = <<>> THEN Len(b)
    ELSE IF b = <<>> THEN Len(a)
    ELSE IF a[1] = b[1] THEN EditDistance(Tail(a), Tail(b))
    ELSE 1 + Min({EditDistance(Tail(a), b), EditDistance(a, Tail(b)),
                  EditDistance(Tail(a), Tail(b))})

\* the edit distances of the words, their case left aside
WordDistance ==
    [v \in Words, o \in Words |-> EditDistance(toLowerCase(v.s), toLowerCase(o.s))]

Suggested == call.fn = "findClosestMatches" /\ result.stage = "suggested"

\* the number of suggestions asked for
Wanted == IF call.given THEN call.k ELSE 3

\* the positions of the options within three edits of the value
Close == {i \in DOMAIN call.options : WordDistance[call.value, call.options[i]] <= 3}

\* the place of a close option: behind the closer ones and behind the ones
\* as close that are listed before it
Place(i) ==
    1 + Cardinality({j \in Close :
            \/ WordDistance[call.value, call.options[j]]
                  < WordDistance[call.value, call.options[i]]
            \/ /\ WordDistance[call.value, call.options[j]]
                    = WordDistance[call.value, call.options[i]]
               /\ j < i})

\* C20: findClosestMatches(value, options, k) returns the options within
\* three edits of the value, case left aside, the closest first and options
\* as close in the order of the list, cut to the first k (3 when k is not
\* given); with no option within three edits it returns the empty sequence
C20_ClosestMatches ==
    Suggested =>
        /\ Len(result.suggestions) = Min({Wanted, Cardinality(Close)})
        /\ \A i \in Close :
              Place(i) <= Wanted => result.suggestions[Place(i)] = call.options[i]
        /\ Close = {} => result.suggestions = <<>>

\* two of three close options wanted, two of them as close, one option too far
C20_Witness ==
    /\ Suggested
    /\ call.value = Wab
    /\ call.options = <<Wwxyz, Wac, Wabc, WAb>>
    /\ call.given /\ call.k = 2
    /\ result.suggestions = <<WAb, Wac>>

\* C21: the edit distance of a string to itself is 0, and for an option list
\* that contains the value the first suggestion of
\* findClosestMatches(value, options) is the value
C21_ExactMatchFirst ==
    Suggested =>
        /\ levenshteinDistance(call.value.s, call.value.s) = 0
        /\ (~call.given /\ call.value \in Range(call.options)) =>
              /\ result.suggestions # <<>>
              /\ result.suggestions[1] = call.value

ServicesValidated == call.fn = "validate" /\ result.stage = "validated"

\* the i-th row (from 1) has the compound value Blur: Hdr-images
ScenarioD(i) == Field(call.rows[i], enhancementSpecification) = BlurHdr

\* a row of the raw task batch blurs Hdr-images into Hdr-images
BlurTaskExists ==
    \E n \in DOMAIN RawTasks(call.fieldOptions) :
        LET task == RawTasks(call.fieldOptions)[n]
        IN  /\ Field(task, "enhancement") = Blur
            /\ Hdr \in Range(Field(task, "inputs").a)
            /\ Hdr \in Range(Field(task, "outputs").a)

Loaded == call.fn = "loadFieldOptions" /\ result.stage = "loaded"

\* the file is there and is JSON
Readable(f) == f.exists /\ f.valid

Fresh(doc) ==
    \A i \in DOMAIN doc :
        /\ doc[i].v.t = "arr" => StaleValue \notin Range(doc[i].v.a)
        /\ doc[i].v.t = "obj" => \A n \in DOMAIN doc[i].v.o : doc[i].v.o[n].k # StaleValue.s

\* C24: a run resets the store to the empty document once, before it reads
\* a file, and no later step empties it again; what an earlier run left in
\* the store is in no options a validation of this run loads and not in the
\* store from the reset to the end of the run
C24_ResetOnce ==
    /\ [](Running => store.exists /\ store.valid /\ Fresh(store.doc))
    /\ [](pc = "validate" => Fresh(loadFieldOptions(store, fieldOptionsFile)))
    /\ [][/\ pc = "init" => (idx = 0 /\ store' = initializeAvailableOptions)
          /\ (pc # "init" /\ store' # store) => store' # initializeAvailableOptions]_vars

\* task products, tasks and services are accepted; the store holds their
\* lists, maps and specifications
C24_Witness ==
    /\ pc = "done"
    /\ successCount = 3
    /\ accepted = {1, 2, 3}
    /\ Len(filePaths) = 3
    /\ filePaths[3].name = "blueprint_services"
    /\ HasKey(store.doc, "task")
    /\ Get(store.doc, "task").a = <<Blurring, Stage, Blend>>
    /\ HasKey(store.doc, "task_responsibilities")
    /\ HasKey(store.doc, "service_specifications")
    /\ Fresh(store.doc)

\* the files of the command line that do not parse or hold an empty batch
Unparsed == {i \in DOMAIN filePaths : filePaths[i].kind \in {"broken", "empty"}}

\* C25: in the JSON and in the tabular pipeline a file that does not parse
\* or whose batch is empty is counted as an error and not as a success,
\* nothing is learned from it, and the run goes on to its end
C25_SoftErrors ==
    /\ (pc = "done" /\ mode \in {"json", "table"}) =>
          /\ errorCount >= Cardinality(Unparsed)
          /\ successCount <= Len(filePaths) - Cardinality(Unparsed)
    /\ \A n \in DOMAIN callLog : callLog[n].values # <<>>

\* a write of the store has failed in this run
Faulted == call.fn = "faults" /\ call.left < MaxFaults

\* C26: once the store could not be written the run is over: no later file
\* is read, validated, learned or converted
C26_FaultAborts ==
    [][Faulted =>
          /\ idx' = idx
          /\ store' = store
          /\ outputs' = outputs
          /\ accepted' = accepted]_vars

\* the trimmed elements of the row's field that are not empty and no option
Failing(row, field, fieldOptions) ==
    SelectSeq(Elements(row, field),
              LAMBDA v : v.s # <<>> /\ v \notin Range(OptionList(fieldOptions, field)))

\* C27: every error for the batch row at index i (from 0) carries the row
\* number i + 2: an error's row number is at least 2, it is the number of a
\* row of the batch that has the reported value in the reported field, and
\* a row with a value that is no option is reported under its own number
C27_RowNumbers ==
    Validated =>
        /\ \A n \in DOMAIN result.errors :
              LET e == result.errors[n]
              IN  /\ e.row >= 2
                  /\ e.row - 2 \in 0..(Len(call.rows) - 1)
                  /\ e.value \in Range(Failing(call.rows[e.row - 1], e.field, call.fieldOptions))
        /\ \A i \in 0..(Len(call.rows) - 1), n \in DOMAIN fieldsToValidate :
              (/\ OptionList(call.fieldOptions, fieldsToValidate[n]) # <<>>
               /\ Failing(call.rows[i + 1], fieldsToValidate[n], call.fieldOptions) # <<>>)
              => \E k \in DOMAIN result.errors :
                     /\ result.errors[k].row = i + 2
                     /\ result.errors[k].field = fieldsToValidate[n]

\* a known task in the first row, an unknown one in the second: one error,
\* for row 3
C27_Witness ==
    /\ Validated
    /\ call.rows = <<<<Prop("task", Blurring)>>, <<Prop("task", Blurign)>>>>
    /\ Len(result.errors) = 1
    /\ result.errors[1].row = 3

\* the keys of the document that are no relationship entries, in their order
OtherEntries(doc) == SelectSeq(doc, LAMBDA p : p.k \notin relationshipKeys)

\* the three relationship entries of the document are these maps
HoldsMaps(doc, m) ==
    /\ Field(doc, "task_responsibilities") = Obj(m[1])
    /\ Field(doc, "taskProduct_producers") = Obj(m[2])
    /\ Field(doc, "taskProduct_enhancements") = Obj(m[3])

\* C28: a call of updateAvailableOptionsRelationships that changes the store
\* leaves the three relationship entries equal to its three arguments,
\* whatever they were before, and every other entry of the store as it was
C28_RelationshipsReplaced ==
    [][(callLog' = callLog /\ store' # store) =>
          /\ \E m \in RelationMaps : HoldsMaps(store'.doc, m)
          /\ OtherEntries(store'.doc) = OtherEntries(store.doc)
          /\ store'.exists /\ store'.valid]_vars

\* two learned lists beside the maps of the last call, which name other
\* tasks and products than the maps of the other call
C28_Witness ==
    /\ pc = "off"
    /\ Len(callLog) = 2
    /\ Len(OtherEntries(store.doc)) = 2
    /\ HoldsMaps(store.doc, <<<<Prop(<<"a">>, Arr(<<va>>))>>, <<>>,
                              <<Prop(<<"B">>, Arr(<<vb>>))>>>>)

\* the step writes the entry: the store has it afterwards, and not as before
Written(key) ==
    /\ HasKey(ReadOptions(store'), key)
    /\ Field(ReadOptions(store'), key) # Field(ReadOptions(store), key)

\* C29: a relationship map is written only by the step that follows the
\* conversion of the tasks file, which has passed validation and has been
\* learned, and it is the first write of the maps in the run; the service
\* specifications are written only by the step after that for a services
\* file, which has passed validation
C29_DerivedAfterOwnFile ==
    [][/\ (\E key \in relationshipKeys : Written(key)) =>
             /\ pc = "relate"
             /\ file.name = "blueprint_tasks"
             /\ idx \in accepted
             /\ fieldIdx > Len(config.learnFields)
             /\ \A key \in relationshipKeys : ~HasKey(ReadOptions(store), key)
             /\ \A key \in relationshipKeys : HasKey(ReadOptions(store'), key)
       /\ Written("service_specifications") =>
             /\ pc = "specs"
             /\ file.name = "blueprint_services"
             /\ idx \in accepted]_vars

\* the maps have just been written for the accepted tasks file
C29_Witness ==
    /\ pc = "specs"
    /\ file.name = "blueprint_tasks"
    /\ idx \in accepted
    /\ \A key \in relationshipKeys : HasKey(ReadOptions(store), key)
    /\ ~HasKey(ReadOptions(store), "service_specifications")

Built == call.fn = "buildTaskProductProducers" /\ result.stage = "built"

\* the outputs of a row, as a list
OutputsOf(row) ==
    IF Field(row, "outputs").t = "undefined" THEN <<>> ELSE AsArray(Field(row, "outputs"))

\* the strings that are an output of some row of the batch
Products == {v \in UNION {Range(OutputsOf(call.rows[i])) : i \in DOMAIN call.rows} : v.t = "str"}

\* the rows of the batch that have the product in their outputs
RowsWith(product) == {i \in DOMAIN call.rows : product \in Range(OutputsOf(call.rows[i]))}

\* the list holds the task names of these rows, each once, in the order of
\* their first rows
ListsTasksOf(list, rows) ==
    /\ Range(list) = {Field(call.rows[i], "task") : i \in rows}
    /\ \A x, y \in DOMAIN list :
          x < y => Min({i \in rows : Field(call.rows[i], "task") = list[x]})
                     < Min({i \in rows : Field(call.rows[i], "task") = list[y]})

Named == {i \in DOMAIN call.rows : Truthy(Field(call.rows[i], "task"))}

BuiltMap(fn) == call.fn = fn /\ result.stage = "built"

\* the last of a set of row numbers
Latest(S) == CHOOSE x \in S : \A y \in S : y <= x

\* the rows of the batch whose field is the name
RowsNamed(field, name) == {i \in DOMAIN call.rows : Field(call.rows[i], field) = name}

\* the names the rows of the batch carry in the field
NamesIn(field) ==
    {Field(call.rows[i], field) : i \in {j \in DOMAIN call.rows : Truthy(Field(call.rows[j], field))}}

\* the sequence a row holds in a field
SequenceIn(row, field) ==
    IF Field(row, field).t = "arr" THEN Field(row, field).a
    ELSE IF Field(row, field).t = "undefined" THEN <<>> ELSE <<Field(row, field)>>

\* the entry of the map for the name is the sequence of the last row that
\* carries the name
LastWins(field, name, sequenceField) ==
    /\ HasKey(result.map, name.s)
    /\ Get(result.map, name.s).a
         = SequenceIn(call.rows[Latest(RowsNamed(field, name))], sequenceField)

\* C31 as stated: the entry of a name is the sequence of the last row that
\* carries the name, in both relationship maps
C31_AsStated ==
    /\ BuiltMap("buildTaskResponsibilities") =>
          /\ ~result.threw
          /\ \A name \in NamesIn("task") : LastWins("task", name, "responsibility_options")
    /\ BuiltMap("buildTaskProductEnhancements") =>
          /\ ~result.threw
          /\ \A name \in NamesIn("taskProduct") : LastWins("taskProduct", name, "enhancement-order")

\* the elements of the sequence that are not empty and not blank
Kept(sequence) == SelectSeq(sequence, LAMBDA r : r.t = "str" /\ trim(r.s) # <<>>)

\* C31: unless an element that is not a string makes the builder throw,
\* task_responsibilities[name] is the responsibility_options sequence, without
\* its empty and blank elements, of the last row of the task that has
\* responsibility_options, a task without such a row has no entry, and
\* taskProduct_enhancements[name] is the enhancement-order list, without its
\* empty and blank elements, of the last row of the task product (no
\* enhancement when that row holds no list); no earlier row is merged in
C31_LastWriteWins ==
    /\ BuiltMap("buildTaskResponsibilities") /\ ~result.threw =>
          \A name \in NamesIn("task") :
              LET rows == {i \in RowsNamed("task", name) :
                              Truthy(Field(call.rows[i], "responsibility_options"))}
              IN  /\ HasKey(result.map, name.s) <=> rows # {}
                  /\ rows # {} =>
                        Get(result.map, name.s).a
                          = Kept(SequenceIn(call.rows[Latest(rows)], "responsibility_options"))
    /\ BuiltMap("buildTaskProductEnhancements") /\ ~result.threw =>
          \A name \in NamesIn("taskProduct") :
              LET last == call.rows[Latest(RowsNamed("taskProduct", name))]
              IN  /\ HasKey(result.map, name.s)
                  /\ Get(result.map, name.s).a
                        = IF Field(last, "enhancement-order").t = "arr"
                          THEN Kept(SequenceIn(last, "enhancement-order")) ELSE <<>>

\* three rows of Stage: the options of the last row are the entry, those of
\* the two rows before it are gone
C31_Witness ==
    /\ BuiltMap("buildTaskResponsibilities")
    /\ ~result.threw
    /\ Len(call.rows) = 3
    /\ RowsNamed("task", Stage) = {1, 2, 3}
    /\ SequenceIn(call.rows[1], "responsibility_options") = <<Qa, Ed>>
    /\ SequenceIn(call.rows[3], "responsibility_options") = <<Ed>>
    /\ Get(result.map, Stage.s).a = <<Ed>>

\* the pass that appends the error: 1 for a simple field, 2 for a compound one
Pass(e) == IF e.field \in Range(fieldsToValidate) THEN 1 ELSE 2

\* the place of the error's field in the declared order of the simple fields
FieldPlace(e) == CHOOSE n \in DOMAIN fieldsToValidate : fieldsToValidate[n] = e.field

\* C32: in the error list the errors of simple fields come before those of
\* compound fields; within a pass the errors are in row order; within a row
\* of the simple pass they are in the declared order of fieldsToValidate;
\* within a field they are in the order of the elements of the value
C32_ErrorOrder ==
    ServicesValidated =>
        /\ \A x, y \in DOMAIN result.errors :
              LET e == result.errors[x]
                  f == result.errors[y]
              IN  x < y =>
                    /\ Pass(e) <= Pass(f)
                    /\ Pass(e) = Pass(f) => e.row <= f.row
                    /\ Pass(e) = 1 /\ Pass(f) = 1 /\ e.row = f.row
                          => FieldPlace(e) <= FieldPlace(f)
        /\ \A i \in DOMAIN call.rows, n \in DOMAIN fieldsToValidate :
              LET reported == ValuesOf(ErrorsAt(result.errors, i, fieldsToValidate[n]))
              IN  reported = SelectSeq(Elements(call.rows[i], fieldsToValidate[n]),
                                       LAMBDA v : v \in Range(reported))

\* two rows with errors of both passes: the second row has two elements of
\* enhancement, then task, then taskProduct in error, in that order, and the
\* compound errors of the first row come after them
C32_Witness ==
    /\ ServicesValidated
    /\ Len(call.rows) = 2
    /\ \E x, y \in DOMAIN result.errors :
          /\ x < y
          /\ Pass(result.errors[x]) = 1 /\ result.errors[x].row = 3
          /\ Pass(result.errors[y]) = 2 /\ result.errors[y].row = 2
    /\ ValuesOf(SelectSeq(result.errors, LAMBDA e : Pass(e) = 1 /\ e.row = 3))
         = <<Typo, Blurign, Blurign, Typo>>
    /\ ValuesOf(ErrorsAt(result.errors, 2, "enhancement")) = <<Typo, Blurign>>

\* the number of colons of the value of a compound field
Colons(value) == Cardinality({n \in DOMAIN StringOf(value) : StringOf(value)[n] = ":"})

\* the i-th row has a compound field whose value has no colon or several
Malformed(i) ==
    \E n \in DOMAIN compoundFields :
        /\ HasValue(Field(call.rows[i], compoundFields[n]))
        /\ Colons(Field(call.rows[i], compoundFields[n])) # 1

\* C33: a value of a compound field that does not have exactly one colon has
\* no error in the list, so a batch in which nothing else is wrong has an
\* empty error list and is not rejected
C33_MalformedSkipped ==
    ServicesValidated =>
        /\ \A i \in DOMAIN call.rows, n \in DOMAIN compoundFields :
              Colons(Field(call.rows[i], compoundFields[n])) # 1
                  => ErrorsAt(result.errors, i, compoundFields[n]) = <<>>
        /\ (\A i \in DOMAIN call.rows : Malformed(i))
              /\ validateData(call.rows, call.fieldOptions) = <<>>
              /\ (\A i \in DOMAIN call.rows, n \in DOMAIN compoundFields :
                     Colons(Field(call.rows[i], compoundFields[n])) # 1)
             => result.errors = <<>>

\* a value with two colons and one with none, against a store with learned
\* lists and relationship maps and no raw task batch: no error
C33_Witness ==
    /\ ServicesValidated
    /\ Len(call.rows) = 2
    /\ Field(call.rows[1], enhancementSpecification) = TwoColons
    /\ Field(call.rows[2], enhancementSpecification) = Blur
    /\ call.fieldOptions = LearnedLists \o LearnedMaps
    /\ result.errors = <<>>

\* the values the learn calls completed so far have given for the field
Logged(fieldName) ==
    UNION {Range(callLog[n].values) : n \in {m \in DOMAIN callLog : callLog[m].field = fieldName}}

\* the fields some file of LEARNING_CONFIG learns
LearnableFields == {"taskProduct", "enhancement-order", "enhancement", "responsibility_options", "task", "Service"}

\* C34: at every step of a run after the reset, the persisted file is a
\* readable document; its learned fields are exactly those of the learn calls
\* completed so far, each a sorted list without duplicates of exactly the
\* values these calls gave; the three relationship maps are there all three
\* or not at all; and it holds nothing else but the service specifications
C34_PersistedAfterEachMutation ==
    Running =>
        /\ store.exists /\ store.valid
        /\ \A fieldName \in LearnableFields :
              /\ HasKey(store.doc, fieldName) <=> Logged(fieldName) # {}
              /\ HasKey(store.doc, fieldName) =>
                    /\ Get(store.doc, fieldName).t = "arr"
                    /\ StrictlySorted(Get(store.doc, fieldName).a)
                    /\ Range(Get(store.doc, fieldName).a) = Logged(fieldName)
        /\ \A i \in DOMAIN store.doc :
              store.doc[i].k \in LearnableFields \cup relationshipKeys \cup {"service_specifications"}
        /\ \A key, other \in relationshipKeys :
              HasKey(store.doc, key) <=> HasKey(store.doc, other)

\* in the middle of the learning of the tasks file, after two task products
\* files: the store on disk has the task products of both files and the
\* enhancements of the tasks, and not yet the tasks
C34_Witness ==
    /\ pc = "learn"
    /\ file.name = "blueprint_tasks"
    /\ fieldIdx = 2
    /\ Len(callLog) = 5
    /\ Get(store.doc, "taskProduct") = Arr(<<Hdr, Pano>>)
    /\ HasKey(store.doc, "enhancement")
    /\ ~HasKey(store.doc, "task")
    /\ ~HasKey(store.doc, "task_responsibilities")

LearnedAndValidated == call.fn = "learn" /\ result.stage = "validated"

\* C35: once the values extractUniqueValues finds for a field in a batch are
\* learned, every trimmed element of the field in the batch that is not empty
\* is in the list of the store, and validating the batch against the store
\* gives no error for the field
C35_LearnedThenValid ==
    LearnedAndValidated =>
        \A i \in DOMAIN call.rows :
            /\ ErrorsAt(result.errors, i, call.fieldName) = <<>>
            /\ \A v \in Range(Elements(call.rows[i], call.fieldName)) :
                  v # EmptyStr => /\ HasKey(ReadOptions(store), call.fieldName)
                                  /\ v \in Range(Get(ReadOptions(store), call.fieldName).a)

\* the padded " Staging " and the unknown Blurign are learned into a store
\* that knew Blurring and Staging: the batch has no error for task
C35_Witness ==
    /\ LearnedAndValidated
    /\ call.fieldName = "task"
    /\ Len(call.rows) = 2
    /\ Field(call.rows[1], "task") = StagingPadded
    /\ Field(call.rows[2], "task") = Blurign
    /\ Get(store.doc, "task").a = <<Blurign, Blurring, Staging>>
    /\ result.errors = <<>>

\* the tasks files the loop has read a batch from before the file it is at
TasksRead ==
    {j \in 1..(idx - 1) : /\ filePaths[j].name = "blueprint_tasks"
                          /\ filePaths[j].kind # "missing"
                          /\ ~Unusable(filePaths[j])}

\* C36: when a services file is validated after a tasks file whose batch has
\* been read, the options of the validation carry that batch as _tasksData
\* (unless it has no rows), whether the tasks file passed its own validation
\* or not; if it did not, the store holds no learned task and no relationship
\* map
C36_RejectedBatchRetained ==
    pc = "validate" /\ file.name = "blueprint_services" =>
        \A j \in TasksRead :
            /\ tasksData = BatchOf(filePaths[j])
            /\ IF tasksData # <<>>
               THEN Field(FieldOptions, "_tasksData")
                      = Arr([i \in DOMAIN tasksData |-> Obj(tasksData[i])])
               ELSE ~HasKey(FieldOptions, "_tasksData")
            /\ j \notin accepted =>
                  /\ ~HasKey(ReadOptions(store), "task")
                  /\ \A key \in relationshipKeys : ~HasKey(ReadOptions(store), key)

\* the tasks file was rejected for an enhancement order the store does not
\* have; the services file after it is validated with its two rows attached
C36_Witness ==
    /\ pc = "validate"
    /\ file.name = "blueprint_services"
    /\ idx = 3
    /\ TasksRead = {2}
    /\ 2 \notin accepted
    /\ errorCount = 1
    /\ Field(FieldOptions, "_tasksData") = Arr(<<Obj(Tasks2[1]), Obj(Tasks2[2])>>)
    /\ ~HasKey(ReadOptions(store), "task")

\* the files of the command line that exist
Existing == {j \in DOMAIN filePaths : filePaths[j].kind # "missing"}

\* C37: at the end of a run successCount + errorCount is the number of the
\* files of the list that exist: each of them has added one to exactly one
\* of the two counters, a missing file to neither
C37_CountedOnce ==
    pc = "done" => successCount + errorCount = Cardinality(Existing)

\* the command line names the task products, the tasks and the services, in
\* that order
StandardOrder ==
    [j \in DOMAIN filePaths |-> filePaths[j].name]
        = <<"blueprint_task_products", "blueprint_tasks", "blueprint_services">>

\* the fields the tasks file is the one to teach
TaughtByTasks == {"task", "enhancement", "responsibility_options"}

\* C38: in a run in the standard order, when the tasks batch is validated the
\* options have no list for task, enhancement or responsibility_options, and
\* the validation gives no error for any of these fields
C38_TasksNotYetConstrained ==
    StandardOrder /\ pc = "validate" /\ file.name = "blueprint_tasks" =>
        /\ \A fieldName \in TaughtByTasks : ~HasKey(FieldOptions, fieldName)
        /\ \A n \in DOMAIN validateData(dataArray, FieldOptions) :
              validateData(dataArray, FieldOptions)[n].field \notin TaughtByTasks

\* the tasks batch, with a task, an enhancement order the store does not
\* have and a number as responsibility option, is rejected for the
\* enhancement order alone
C38_Witness ==
    /\ StandardOrder
    /\ pc = "validate"
    /\ file.name = "blueprint_tasks"
    /\ dataArray = Tasks2
    /\ HasKey(FieldOptions, "enhancement-order")
    /\ validateData(dataArray, FieldOptions) # <<>>
    /\ \A n \in DOMAIN validateData(dataArray, FieldOptions) :
          validateData(dataArray, FieldOptions)[n].field = "enhancement-order"

\* C39: every run ends with the summary; until then the loop is at a place
\* where it has a step to take; it goes through the list one file at a time,
\* forward only, and the summary comes when the last file has been visited,
\* and is the end
C39_Terminates ==
    /\ <>(pc = "done")
    /\ [](/\ pc \in {"init", "file", "validate", "learn", "relate", "specs", "done"}
          /\ idx <= Len(filePaths)
          /\ pc \in {"validate", "learn", "relate", "specs"} => idx \in DOMAIN filePaths
          /\ pc = "done" => idx = Len(filePaths))
    /\ [][idx' = idx \/ (idx' = idx + 1 /\ pc = "file")]_vars
    /\ [][pc' = "done" => pc = "file" /\ idx = Len(filePaths)]_vars
    /\ [][pc = "done" => pc' = "done"]_vars

\* a run over a missing file, a file that is no JSON and a file that is
\* converted has reported its summary
C39_Witness ==
    /\ pc = "done"
    /\ idx = 3
    /\ \E j \in DOMAIN filePaths : filePaths[j].kind = "missing"
    /\ \E j \in DOMAIN filePaths : filePaths[j].kind = "broken"
    /\ errorCount = 1
    /\ successCount = 1

\* the loop is at a file that is none of the three blueprints
AtOtherFile ==
    /\ idx \in DOMAIN filePaths
    /\ pc \in {"validate", "learn", "relate", "specs"}
    /\ file.name \notin {"blueprint_task_products", "blueprint_tasks", "blueprint_services"}

\* C40: a file that is none of the three blueprints has the default phase,
\* learnFields [] and validate true; its batch is validated against the
\* options of the current store; and no step on it changes the store
C40_DefaultPhase ==
    /\ [](AtOtherFile => config = [learnFields |-> <<>>, validate |-> TRUE])
    /\ [][AtOtherFile /\ pc = "validate"
            => validationErrors' = validateData(dataArray, FieldOptions)]_vars
    /\ [][AtOtherFile => store' = store]_vars

====
